---------------------------- MODULE Spec2Model ----------------------------
(***************************************************************************)
(* State-machine model of the monitoring core of the multi-game bot:       *)
(*   - the crash/recovery detector   (game_bot_starter.py, TasksCog)       *)
(*   - the smart-restart scheduler   (game_bot_starter.py, TasksCog)       *)
(*   - the log-tail pipeline         (game_bot_starter.py, LogFileHandler) *)
(*   - the RCON manager              (Multi-Game Dedicated Monitor Bot)    *)
(*   - presence reconciliation and the playtime ledger (same file)         *)
(* Each subsystem has its own specification (SpecCrash, SpecSched,         *)
(* SpecLog, SpecRcon, Spec); the variables of the other subsystems are     *)
(* held at their initial values.                                           *)
(***************************************************************************)
EXTENDS Integers, Sequences, FiniteSets, TLC

VARIABLES
    \* ---- crash detector (TasksCog) ----
    check_threshold,    \* crash_detector_config["offline_checks_before_alert"]
    alert_channel_id,   \* TRUE iff crash_detector_config["alert_channel_id"] is set
    offline_counters,   \* self.offline_counters : game -> Nat
    alertSent,          \* per game, the alert the last tick tried to send
    alertDelivered,     \* per game, whether that channel.send succeeded
    streak,             \* history: consecutive failed samples seen per game
    lastStreak,         \* history: streak before the most recent sample
    outageAlerts,       \* history: Offline alerts emitted since the last online sample
    \* ---- presence reconciliation and playtime ledger (monitor bot) ----
    proc,               \* "up" while the bot process runs, "down" after a crash
    mon_pc,             \* the game player_monitor_task checks next: "mc", then "pal"
    now,                \* the wall clock read by datetime.now(), in seconds
    player_stats,       \* the in-memory ledger: key -> entry or NoEntry
    stats_file,         \* player_stats.json on disk
    current_players,    \* current_mc_players / current_pal_players
    join_times,         \* mc_join_times / pal_join_times: player -> time or NoTime
    events,             \* messages sent by the last check_server call
    lastPoll,           \* history: the game and poll result of the last check_server call
    online_at_start,    \* history: the (game, player) pairs online on the servers when
                        \* the process was restarted, until the game's first listing
    \* ---- single-server Palworld monitor (palworld_bot.py) ----
    program,            \* the bot that runs: "monitor" (multi-game) or "palworld"
    last_player_set,    \* last_player_set
    pw_events,          \* messages sent by the last monitor_rcon_task iteration
    pw_lastPoll,        \* history: the poll result and the set before that iteration
    pw_polled,          \* history: an iteration has had a successful poll
    \* ---- RconManager of one target (monitor bot) ----
    rc_client,          \* self.client: 0 for None, else the RconAsync object held
    rc_connected,       \* self.connected
    rc_last_error,      \* self.last_error
    rc_created,         \* the number of RconAsync objects created so far
    conn_open,          \* the RconAsync objects whose connection is open
    call_pc,            \* per caller of send_command: "idle", "connecting", "sending"
    call_client,        \* per caller: the RconAsync object its pending await uses
    call_result,        \* per caller: what its last send_command call returned
    \* ---- smart-restart scheduler (TasksCog) ----
    sch_cogs,           \* the game cogs that are loaded (bot.get_cog is not None)
    sch_next,           \* the time the loop has scheduled the next iteration for
    sch_sent,           \* the RCON commands the last iteration sent, in order
    sch_minute,         \* history: the UTC minute the last iteration read
    sch_fires,          \* history: per event, its firings within that UTC minute
    sch_down,           \* the cogs whose RCON calls fail during the last iteration
    sch_running,        \* the loop of smart_restart_task has not ended with an error
    \* ---- log-tail pipeline (LogWatcherCog, LogFileHandler) ----
    log_watching,       \* start_watching has run
    log_file,           \* per game, the content of the file at the log path
    log_written,        \* the number of writes made to the logs so far
    log_rotations,      \* the number of truncations and replacements so far
    fh_open,            \* per game, file_handles holds an open handle
    fh_stale,           \* per game, the handle is of a file that was replaced
    fh_content,         \* per game, the content of that replaced file
    fh_pos,             \* per game, the read position of the handle
    log_pc,             \* the game process_new_lines reads next
    log_pending,        \* "created" events the observer has not delivered yet
    log_processed,      \* per game, the non-empty lines given to parse_log_line
    log_snapshot,       \* history: per game, the characters in the file at attach
    log_rotated,        \* history: per game, rotated while being watched
    log_dirty,          \* history: per game, changed since it was last read
    \* ---- log event relay (LogFileHandler.parse_log_line, handle_log_event) ----
    economy_enabled,    \* self.economy_enabled
    points_per_chat,    \* self.points_per_chat
    relay_channels,     \* per game, a relay channel id is configured
    chat_cooldowns,     \* self.chat_cooldowns; 0 for a player it does not hold
    db_points,          \* per player, the points the database holds
    rl_now,             \* time.time()
    rl_line,            \* history: the game and line of the last parse_log_line
    rl_scheduled,       \* history: the handle_log_event calls it scheduled
    rl_queue,           \* the scheduled handle_log_event calls that have not run
    rl_last,            \* history: the last handle_log_event call, its outcome
    \* ---- player-name extractors (monitor bot) ----
    ex_response,        \* the RCON response given to the extractor
    ex_kind,            \* which extractor ran on it: "none", "mc" or "pal"
    ex_players,         \* the set the extractor returned
    \* ---- start and stop of the bot (GameBot, LogWatcherCog, TasksCog) ----
    lf_pc,              \* "new", "setup", "ready", "closed" or "close_raised"
    lf_paths,           \* the games with a log path in server_file_paths
    lf_exists,          \* the games whose log file exists
    lf_enabled,         \* the periodic tasks of TasksCog the config enables
    lf_tasks,           \* the periodic tasks that are started and not cancelled
    lf_observer,        \* the watchdog observer thread: "new", "started", "stopped"
    lf_handles,         \* the games whose log file handle is open
    \* ---- the status command of one target (monitor bot) ----
    st_pc,              \* "idle", "connecting", "reconnecting" or "sending"
    st_client,          \* the RconAsync object its pending await uses
    \* ---- _send_rcon_command of the Palworld bot ----
    RconAsync,          \* whether the import of the RCON library succeeded
    RCON_PASSWORD,      \* whether a password is configured
    prc_pc,             \* caller -> "idle", "connecting", "sending", "closing"
    rcon,               \* caller -> the local rcon of its call, or NoClient
    prc_pending,        \* caller -> the return or exception the finally block holds
    prc_result,         \* caller -> how its last call completed
    prc_open,           \* the clients whose connection is open
    prc_created,        \* RconAsync objects created so far
    \* ---- the users table and the economy commands ----
    users,              \* discord_id -> its row of the users table
    db_last,            \* the database call that completed last
    buying              \* /buy invocation -> the purchase whose checks passed

crashVars == <<check_threshold, alert_channel_id, offline_counters, alertSent,
               alertDelivered, streak, lastStreak, outageAlerts>>

monVars == <<proc, mon_pc, now, player_stats, stats_file, current_players, join_times,
             events, lastPoll, online_at_start>>

palVars == <<program, last_player_set, pw_events, pw_lastPoll, pw_polled>>

rconVars == <<rc_client, rc_connected, rc_last_error, rc_created, conn_open,
              call_pc, call_client, call_result>>

schedVars == <<sch_cogs, sch_next, sch_sent, sch_minute, sch_fires, sch_down,
               sch_running>>

logVars == <<log_watching, log_file, log_written, log_rotations, fh_open,
             fh_stale, fh_content, fh_pos, log_pc, log_pending, log_processed,
             log_snapshot, log_rotated, log_dirty>>

relayVars == <<economy_enabled, points_per_chat, relay_channels, chat_cooldowns,
               db_points, rl_now, rl_line, rl_scheduled, rl_queue, rl_last>>

extractVars == <<ex_response, ex_kind, ex_players>>

lifeVars == <<lf_pc, lf_paths, lf_exists, lf_enabled, lf_tasks, lf_observer,
             lf_handles>>

statusVars == <<st_pc, st_client>>

palRconVars == <<RconAsync, RCON_PASSWORD, prc_pc, rcon, prc_pending, prc_result, prc_open, prc_created>>
dbVars == <<users, db_last, buying>>
vars == <<crashVars, monVars, palVars, rconVars, schedVars, logVars, relayVars, extractVars, lifeVars, statusVars, palRconVars, dbVars>>

nonCrashVars == <<monVars, palVars, rconVars, schedVars, logVars, relayVars, extractVars, lifeVars, statusVars, palRconVars, dbVars>>
nonMonVars == <<crashVars, palVars, rconVars, schedVars, logVars, relayVars, extractVars, lifeVars, statusVars, palRconVars, dbVars>>
nonPalVars == <<crashVars, monVars, rconVars, schedVars, logVars, relayVars, extractVars, lifeVars, statusVars, palRconVars, dbVars>>
nonRconVars == <<crashVars, monVars, palVars, schedVars, logVars, relayVars, extractVars, lifeVars, statusVars, palRconVars, dbVars>>
nonSchedVars == <<crashVars, monVars, palVars, rconVars, logVars, relayVars, extractVars, lifeVars, statusVars, palRconVars, dbVars>>
nonLogVars == <<crashVars, monVars, palVars, rconVars, schedVars, relayVars, extractVars, lifeVars, statusVars, palRconVars, dbVars>>
nonRelayVars == <<crashVars, monVars, palVars, rconVars, schedVars, logVars, extractVars, lifeVars, statusVars, palRconVars, dbVars>>
nonExtractVars == <<crashVars, monVars, palVars, rconVars, schedVars, logVars, relayVars, lifeVars, statusVars, palRconVars, dbVars>>
nonLifeVars == <<crashVars, monVars, palVars, rconVars, schedVars, logVars, relayVars, extractVars, statusVars, palRconVars, dbVars>>
nonStatusVars == <<crashVars, monVars, palVars, rconVars, schedVars, logVars, relayVars, extractVars, lifeVars, palRconVars, dbVars>>
nonRconStatusVars == <<crashVars, monVars, palVars, schedVars, logVars, relayVars, extractVars, lifeVars, palRconVars, dbVars>>
nonPalRconVars == <<crashVars, monVars, palVars, rconVars, schedVars, logVars, relayVars, extractVars, lifeVars, statusVars, dbVars>>
nonDbVars == <<crashVars, monVars, palVars, rconVars, schedVars, logVars, relayVars, extractVars, lifeVars, statusVars, palRconVars>>

(***************************************************************************)
(* Bounds of the model.                                                    *)
(***************************************************************************)
MaxThreshold == 3
MaxExtraFails == 2
MaxTime == 1
MaxClients == 3
UnitsPerMinute == 3
MaxJitter == 1
DayMinutes == 4
MaxWrites == 2
MaxRotations == 1
MaxPending == 1
MaxTotal == 2
MaxPoints == 2
MaxCost == 2
MaxPalClients == 3
MaxResponseLen == 5
MaxMatches == 2
MaxChatTime == 3
MaxQueue == 1

(***************************************************************************)
(*                         CRASH / RECOVERY DETECTOR                       *)
(***************************************************************************)
CrashGames == {"mc", "pal", "ark"}

\* A liveness sample: the status string contains "**Offline**" or it does not.
Samples == {"online", "offline"}

\* The mutant of CounterAfter: one count of failures shared by the games.
CounterAfterShared(counter, sample) ==
    IF sample = "offline"
    THEN 1 + (CHOOSE n \in {offline_counters[g] : g \in CrashGames} :
                 \A g \in CrashGames : offline_counters[g] <= n)
    ELSE 0

\* The counter after one sample (lines 1182-1183 and 1216).
CounterAfter(counter, sample) ==
    IF sample = "offline" THEN counter + 1 ELSE 0

\* The mutant of OfflineAlertDue: alerts on every sample at or past the threshold.
OfflineAlertDueEveryFail(counter, threshold) == counter >= threshold

\* Line 1186: the Offline alert is sent when the incremented counter equals
\* the threshold.
OfflineAlertDue(counter, threshold) == counter = threshold

\* The mutant of RecoveryAlertDue: a Recovery after any failed sample.
RecoveryAlertDueAny(counter, threshold) == counter >= 1

\* Line 1201: the Recovery alert is sent when the counter had reached the
\* threshold before the online sample.
RecoveryAlertDue(counter, threshold) == counter >= threshold

\* The alert one game's sample makes the task send (lines 1182-1216).
AlertFor(counter, sample, threshold) ==
    IF sample = "offline"
    THEN IF OfflineAlertDue(counter + 1, threshold) THEN "offline" ELSE "none"
    ELSE IF RecoveryAlertDue(counter, threshold) THEN "recovery" ELSE "none"

CrashVarsInit ==
    /\ check_threshold \in 1..MaxThreshold
    /\ alert_channel_id \in BOOLEAN
    /\ offline_counters = [g \in CrashGames |-> 0]
    /\ alertSent = [g \in CrashGames |-> "none"]
    /\ alertDelivered = [g \in CrashGames |-> FALSE]
    /\ streak = [g \in CrashGames |-> 0]
    /\ lastStreak = [g \in CrashGames |-> 0]
    /\ outageAlerts = [g \in CrashGames |-> 0]

\* The detector with any configured integer as offline_checks_before_alert
\* (line 1166 reads the value and nothing checks it): 0 is one of them.
CrashConfigVarsInit ==
    /\ check_threshold \in 0..MaxThreshold
    /\ alert_channel_id \in BOOLEAN
    /\ offline_counters = [g \in CrashGames |-> 0]
    /\ alertSent = [g \in CrashGames |-> "none"]
    /\ alertDelivered = [g \in CrashGames |-> FALSE]
    /\ streak = [g \in CrashGames |-> 0]
    /\ lastStreak = [g \in CrashGames |-> 0]
    /\ outageAlerts = [g \in CrashGames |-> 0]

\* crash_detector_task with no alert channel configured: lines 1171-1173 return
\* before any status is sampled.
CrashDetectorNoChannel ==
    /\ ~alert_channel_id
    /\ UNCHANGED vars

\* One iteration of crash_detector_task: one sample per game, the counter
\* update and the alert of each game; sendOk[g] says whether fetch_channel and
\* channel.send succeed for that game's alert (a failure is logged and
\* swallowed, lines 1198-1199 and 1214-1215).
CrashDetectorTick ==
    /\ alert_channel_id
    /\ \E statuses \in [CrashGames -> Samples], sendOk \in [CrashGames -> BOOLEAN] :
        /\ \A g \in CrashGames :
              statuses[g] = "offline"
                  => offline_counters[g] < check_threshold + MaxExtraFails
        \* a delivery outcome exists only for an alert that is sent
        /\ \A g \in CrashGames :
              AlertFor(offline_counters[g], statuses[g], check_threshold) = "none"
                  => sendOk[g] = FALSE
        /\ offline_counters' =
              [g \in CrashGames |-> CounterAfter(offline_counters[g], statuses[g])]
        /\ alertSent' =
              [g \in CrashGames |->
                  AlertFor(offline_counters[g], statuses[g], check_threshold)]
        /\ alertDelivered' = sendOk
        /\ lastStreak' = streak
        /\ streak' = [g \in CrashGames |->
                         IF statuses[g] = "offline" THEN streak[g] + 1 ELSE 0]
        /\ outageAlerts' =
              [g \in CrashGames |->
                  IF statuses[g] = "online" THEN 0
                  ELSE outageAlerts[g]
                       + (IF alertSent'[g] = "offline" THEN 1 ELSE 0)]
    /\ UNCHANGED <<check_threshold, alert_channel_id, nonCrashVars>>

CrashIdle ==
    /\ check_threshold = 1
    /\ alert_channel_id = FALSE
    /\ offline_counters = [g \in CrashGames |-> 0]
    /\ alertSent = [g \in CrashGames |-> "none"]
    /\ alertDelivered = [g \in CrashGames |-> FALSE]
    /\ streak = [g \in CrashGames |-> 0]
    /\ lastStreak = [g \in CrashGames |-> 0]
    /\ outageAlerts = [g \in CrashGames |-> 0]

\* C1: for each game, one Offline alert per outage, sent at the sample where
\* the consecutive-offline count first equals the threshold and at no later
\* failed sample of that outage, and one Recovery alert, sent at the first
\* online sample after the count reached the threshold.
C1_OneAlertPerOutage ==
    \A g \in CrashGames :
        /\ outageAlerts[g] = (IF streak[g] >= check_threshold THEN 1 ELSE 0)
        /\ (alertSent[g] = "offline") <=> (streak[g] = check_threshold)
        /\ (alertSent[g] = "recovery")
              <=> (streak[g] = 0 /\ lastStreak[g] >= check_threshold)

\* An outage that lasted past the threshold and has just ended: the Offline
\* alert was sent once, later failed samples sent none, the Recovery is sent.
C1_Witness ==
    \E g \in CrashGames :
        /\ lastStreak[g] > check_threshold
        /\ streak[g] = 0
        /\ alertSent[g] = "recovery"

\* C16: an online sample sets the game's counter to 0, and sends no alert
\* when the counter was between 1 and the threshold minus 1.
C16_SilentResetBelowThreshold ==
    [][\A g \in CrashGames :
          streak'[g] = 0 =>
              /\ offline_counters'[g] = 0
              /\ (offline_counters[g] \in 1..(check_threshold - 1)
                     => alertSent'[g] = "none")]_vars

\* A game that failed fewer samples than the threshold has just been sampled
\* online: no alert, counter 0.
C16_Witness ==
    \E g \in CrashGames :
        /\ lastStreak[g] \in 1..(check_threshold - 1)
        /\ streak[g] = 0
        /\ offline_counters[g] = 0
        /\ alertSent[g] = "none"

\* C17: what a tick does to a game is determined by that game's own counter
\* and its own sample: a failed sample adds one to its counter and alerts iff
\* that reaches the threshold, an online sample sets it to 0 and alerts iff it
\* had reached the threshold, whatever the other games' samples and counters.
C17_GamesAreIndependent ==
    [][\A g \in CrashGames :
          /\ streak'[g] = 0 =>
                /\ offline_counters'[g] = 0
                /\ alertSent'[g] \in {"none", "recovery"}
                /\ alertSent'[g] = "recovery" <=> offline_counters[g] >= check_threshold
          /\ streak'[g] > 0 =>
                /\ offline_counters'[g] = offline_counters[g] + 1
                /\ alertSent'[g] \in {"none", "offline"}
                /\ alertSent'[g] = "offline"
                      <=> offline_counters[g] + 1 = check_threshold]_vars

\* One tick in which a game reached the threshold, a second game stayed
\* healthy and a third one recovered.
C17_Witness ==
    \E g, h, k \in CrashGames :
        /\ alertSent[g] = "offline" /\ offline_counters[g] = check_threshold
        /\ alertSent[h] = "none" /\ offline_counters[h] = 0 /\ lastStreak[h] = 0
        /\ alertSent[k] = "recovery" /\ offline_counters[k] = 0

\* C35: for each game and every configured threshold, a Recovery alert is sent
\* only when an Offline alert has been sent for that game since its last online
\* sample, and an Offline alert only when none has been sent since then.
C35_RecoveryFollowsOffline ==
    [][\A g \in CrashGames :
          /\ alertSent'[g] = "recovery" => outageAlerts[g] = 1
          /\ alertSent'[g] = "offline" => outageAlerts[g] = 0]_vars

(***************************************************************************)
(*               PRESENCE RECONCILIATION AND PLAYTIME LEDGER               *)
(***************************************************************************)
MonGames == {"mc", "pal"}
Players == {"p1", "p2"}

\* The players that can be online on each server.
PlayersOf(game) == IF game = "mc" THEN Players ELSE {"p1"}

\* player_key = f"{game}:{player}"
Keys == {k \in MonGames \X Players : k[2] \in PlayersOf(k[1])}
NoEntry == [first_join |-> -1, total_playtime_seconds |-> -1]
NoTime == -1
EmptyStats == [k \in Keys |-> NoEntry]

\* What a poll of one game yields: a listing (get_players returns the extracted
\* set), an "ERROR:" response of send_command, or an exception that escapes
\* get_players.
PollResults(game) ==
    [outcome : {"ok"}, players : SUBSET PlayersOf(game)]
        \cup [outcome : {"error", "raise"}, players : {{}}]
NoPoll == [game |-> "none", outcome |-> "none", players |-> {}]

\* The order in which a for loop visits the elements of a set.
RECURSIVE SetToSeq(_)
SetToSeq(S) ==
    IF S = {} THEN <<>>
    ELSE LET x == CHOOSE y \in S : TRUE IN <<x>> \o SetToSeq(S \ {x})

\* The stats file after save_stats returned: the JSON of the whole ledger.
SavedFile(stats) == [kind |-> "json", data |-> stats]
AbsentFile == [kind |-> "absent", data |-> EmptyStats]
\* The stats file while save_stats is writing: open(..., 'w') has truncated it
\* and json.dump has not finished.
PartialFile == [kind |-> "partial", data |-> EmptyStats]

\* load_stats: the decoded file, or an empty ledger when the file is missing or
\* does not decode.
load_stats(file) ==
    IF file.kind = "json" THEN file.data ELSE EmptyStats

\* The working state of one player_monitor_task iteration:
\*   stats, file, jt : player_stats, the stats file, the join-time maps
\*   ev              : the messages sent so far
\*   saves           : the number of save_stats calls made so far
\* The mutant of IsNewKey: every join is taken for a first join.
IsNewKeyAlways(stats, key) == TRUE

\* Line 82: player_key not in player_stats
IsNewKey(stats, key) == stats[key] = NoEntry

update_player_join(s, game, player, t) ==
    LET key == <<game, player>>
        stats1 == [s.stats EXCEPT ![key] =
                      [first_join |-> t, total_playtime_seconds |-> 0]]
        s1 == IF IsNewKey(s.stats, key)
              THEN [s EXCEPT !.stats = stats1, !.file = SavedFile(stats1),
                             !.saves = @ + 1]
              ELSE s
    IN [s1 EXCEPT !.jt[game][player] = t]

\* The mutant of SessionDuration: the session is not measured.
SessionDurationZero(t, join_time) == 0

\* Line 107: session_duration = (datetime.now() - join_time).total_seconds()
SessionDuration(t, join_time) == t - join_time

\* The mutant of Tracked: every leave is taken for a tracked one.
TrackedAlways(jt, game, player) == TRUE

\* Lines 99-103: player in mc_join_times / player in pal_join_times
Tracked(jt, game, player) == jt[game][player] # NoTime

update_player_leave(s, game, player, t) ==
    LET key == <<game, player>> IN
    IF ~Tracked(s.jt, game, player)
    THEN s
    ELSE LET join_time == s.jt[game][player]
             s1 == [s EXCEPT !.jt[game][player] = NoTime]
             session_duration == SessionDuration(t, join_time)
             stats1 == [s.stats EXCEPT ![key].total_playtime_seconds =
                                            @ + session_duration]
         IN IF s.stats[key] # NoEntry
            THEN [s1 EXCEPT !.stats = stats1, !.file = SavedFile(stats1),
                            !.saves = @ + 1]
            ELSE s1

JoinedPlayersAll(new_players, current_set) == new_players

\* joined_players = new_players - current_set
JoinedPlayers(new_players, current_set) == new_players \ current_set

\* The mutant of LeftPlayers: the difference is taken the other way round.
LeftPlayersSwapped(new_players, current_set) == new_players \ current_set

\* left_players = current_set - new_players
LeftPlayers(new_players, current_set) == current_set \ new_players

RECURSIVE JoinLoop(_, _, _, _)
JoinLoop(s, game, todo, t) ==
    IF todo = <<>> THEN s
    ELSE LET s1 == update_player_join(s, game, Head(todo), t)
         IN JoinLoop([s1 EXCEPT !.ev = Append(@, <<"join", game, Head(todo)>>)],
                     game, Tail(todo), t)

\* The mutant of LeaveLoop: the Leave messages go out ahead of the Joins.
RECURSIVE LeaveLoopFirst(_, _, _, _)
LeaveLoopFirst(s, game, todo, t) ==
    IF todo = <<>> THEN s
    ELSE LET s1 == update_player_leave(s, game, Head(todo), t)
         IN LeaveLoopFirst([s1 EXCEPT !.ev = <<<<"leave", game, Head(todo)>>>> \o @],
                           game, Tail(todo), t)

RECURSIVE LeaveLoop(_, _, _, _)
LeaveLoop(s, game, todo, t) ==
    IF todo = <<>> THEN s
    ELSE LET s1 == update_player_leave(s, game, Head(todo), t)
         IN LeaveLoop([s1 EXCEPT !.ev = Append(@, <<"leave", game, Head(todo)>>)],
                      game, Tail(todo), t)

\* What check_server returns when get_players raised.
SetAfterException(current_set) == {}

\* check_server(monitor, game, current_set): s.cur[game] is current_set before
\* and the returned set after.
check_server(s, game, poll, t) ==
    LET current_set == s.cur[game] IN
    CASE poll.outcome = "raise" ->
            [s EXCEPT !.cur[game] = SetAfterException(current_set),
                      !.ev = IF current_set # {}
                             THEN Append(@, <<"lost", game, "-">>) ELSE @]
      [] poll.outcome = "error" ->
            [s EXCEPT !.ev = Append(@, <<"rcon_error", game, "-">>)]
      [] OTHER ->
            LET joined == JoinedPlayers(poll.players, current_set)
                left == LeftPlayers(poll.players, current_set)
                s1 == JoinLoop(s, game, SetToSeq(joined), t)
                s2 == LeaveLoop(s1, game, SetToSeq(left), t)
            IN [s2 EXCEPT !.cur[game] = poll.players]

\* One check_server call of player_monitor_task on the current state.
CheckResult(game, poll) ==
    check_server([stats |-> player_stats, file |-> stats_file, jt |-> join_times,
                  cur |-> current_players, ev |-> <<>>, saves |-> 0],
                 game, poll, now)

\* The sends of a check_server call that can raise: the k-th send (counted
\* from 0) of the call is the one that fails. A poll that raised sends the
\* lost-connectivity alert when the set was not empty (line 296), an ERROR
\* response sends to the log channel (line 303), a listing sends one message
\* per joined and per left player (lines 314, 325).
AbortPoints(game, poll) ==
    CASE poll.outcome = "raise" ->
            IF current_players[game] # {} THEN {0} ELSE {}
      [] poll.outcome = "error" -> {0}
      [] OTHER ->
            0..(Cardinality(JoinedPlayers(poll.players, current_players[game]))
                + Cardinality(LeftPlayers(poll.players, current_players[game]))
                - 1)

\* check_server when its k-th send raises: the sends before it were made, the
\* ledger update ahead of the failing send was made (lines 308, 319), and
\* the call does not return, so that the game's current set is not assigned.
check_server_aborted(s, game, poll, k, t) ==
    LET current_set == s.cur[game]
        joined == SetToSeq(JoinedPlayers(poll.players, current_set))
        left == SetToSeq(LeftPlayers(poll.players, current_set))
    IN
    IF poll.outcome # "ok" THEN s
    ELSE IF k < Len(joined)
    THEN update_player_join(JoinLoop(s, game, SubSeq(joined, 1, k), t),
                            game, joined[k + 1], t)
    ELSE LET s1 == JoinLoop(s, game, joined, t)
             s2 == LeaveLoop(s1, game, SubSeq(left, 1, k - Len(joined)), t)
         IN update_player_leave(s2, game, left[k - Len(joined) + 1], t)

\* One check_server call of player_monitor_task whose k-th send raises.
AbortedResult(game, poll, k) ==
    check_server_aborted([stats |-> player_stats, file |-> stats_file,
                          jt |-> join_times, cur |-> current_players,
                          ev |-> <<>>, saves |-> 0],
                         game, poll, k, now)

NoJoinTimes == [g \in MonGames |-> [p \in PlayersOf(g) |-> NoTime]]

MonVarsInit ==
    /\ proc = "up"
    /\ mon_pc = "mc"
    /\ now = 0
    /\ player_stats = EmptyStats
    /\ stats_file = AbsentFile
    /\ current_players = [g \in MonGames |-> {}]
    /\ join_times = NoJoinTimes
    /\ events = <<>>
    /\ lastPoll = NoPoll
    /\ online_at_start = {}

\* player_monitor_task checks Minecraft, then Palworld (lines 328-332).
NextGame(game) == IF game = "mc" THEN "pal" ELSE "mc"

\* One check_server call of player_monitor_task, from the poll to the
\* assignment of its result to the game's current set.
CheckServerStep(game) ==
    /\ program = "monitor"
    /\ proc = "up"
    /\ mon_pc = game
    /\ \E poll \in PollResults(game) :
        LET r == CheckResult(game, poll) IN
        /\ player_stats' = r.stats
        /\ stats_file' = r.file
        /\ join_times' = r.jt
        /\ current_players' = r.cur
        /\ events' = r.ev
        /\ lastPoll' = [game |-> game, outcome |-> poll.outcome,
                        players |-> poll.players]
        /\ online_at_start' = IF poll.outcome = "ok"
                              THEN {k \in online_at_start : k[1] # game}
                              ELSE online_at_start
    /\ mon_pc' = NextGame(game)
    /\ UNCHANGED <<proc, now, nonMonVars>>

\* One check_server call in which a send raises discord.HTTPException (or
\* its subclass Forbidden). The exception leaves check_server and
\* player_monitor_task (nothing on the way catches it): the rest of the
\* iteration is not run, and the loop of discord.ext.tasks, which goes on
\* only after the connection errors it retries on, ends.
CheckServerAborts(game) ==
    /\ program = "monitor"
    /\ proc = "up"
    /\ mon_pc = game
    /\ \E poll \in PollResults(game) : \E k \in AbortPoints(game, poll) :
        LET r == AbortedResult(game, poll, k) IN
        /\ player_stats' = r.stats
        /\ stats_file' = r.file
        /\ join_times' = r.jt
        /\ current_players' = r.cur
        /\ events' = r.ev
        /\ lastPoll' = [game |-> game, outcome |-> "aborted",
                        players |-> poll.players]
    /\ mon_pc' = "stopped"
    /\ UNCHANGED <<proc, now, online_at_start, nonMonVars>>

\* The wall clock advances.
ClockTick ==
    /\ program = "monitor"
    /\ now < MaxTime
    /\ now' = now + 1
    /\ events' = <<>>
    /\ lastPoll' = NoPoll
    /\ UNCHANGED <<proc, mon_pc, player_stats, stats_file, current_players,
                   join_times, online_at_start, nonMonVars>>

\* The process dies between two check_server calls: everything in memory is
\* lost.
ProcessCrash ==
    /\ program = "monitor"
    /\ proc = "up"
    /\ proc' = "down"
    /\ mon_pc' = "mc"
    /\ player_stats' = EmptyStats
    /\ current_players' = [g \in MonGames |-> {}]
    /\ join_times' = NoJoinTimes
    /\ events' = <<>>
    /\ lastPoll' = NoPoll
    /\ online_at_start' = {}
    /\ UNCHANGED <<now, stats_file, nonMonVars>>

\* The process dies inside a save_stats call of the next check_server call,
\* after open(STATISTICS_FILE, 'w') truncated the file and before json.dump
\* completed.
CrashDuringSave ==
    /\ program = "monitor"
    /\ proc = "up"
    /\ mon_pc \in MonGames
    /\ {poll \in PollResults(mon_pc) : CheckResult(mon_pc, poll).saves > 0} # {}
    /\ proc' = "down"
    /\ mon_pc' = "mc"
    /\ stats_file' = PartialFile
    /\ player_stats' = EmptyStats
    /\ current_players' = [g \in MonGames |-> {}]
    /\ join_times' = NoJoinTimes
    /\ events' = <<>>
    /\ lastPoll' = NoPoll
    /\ online_at_start' = {}
    /\ UNCHANGED <<now, nonMonVars>>

\* The process is started again: on_ready calls load_stats and starts
\* player_monitor_task. Any set of players may be online on the servers at
\* that moment.
OnReady ==
    /\ program = "monitor"
    /\ proc = "down"
    /\ proc' = "up"
    /\ player_stats' = load_stats(stats_file)
    /\ events' = <<>>
    /\ lastPoll' = NoPoll
    /\ online_at_start' \in SUBSET Keys
    /\ UNCHANGED <<mon_pc, now, stats_file, current_players, join_times,
                   nonMonVars>>

\* The number of times message m occurs in the sequence of sent messages.
Count(seq, m) == Cardinality({i \in 1..Len(seq) : seq[i] = m})

PresenceEvents(seq) ==
    {i \in 1..Len(seq) : seq[i][1] \in {"join", "leave"}}

C3_SuccessfulPollDiff ==
    [][lastPoll'.outcome = "ok" =>
          LET g == lastPoll'.game
              O == current_players[g]
              N == lastPoll'.players
          IN /\ current_players'[g] = N
             /\ \A p \in PlayersOf(g) :
                   /\ Count(events', <<"join", g, p>>)
                         = (IF p \in N \ O THEN 1 ELSE 0)
                   /\ Count(events', <<"leave", g, p>>)
                         = (IF p \in O \ N THEN 1 ELSE 0)
             /\ PresenceEvents(events') = 1..Len(events')]_vars

\* A successful poll in which one player joined, one left and one stayed away
\* or stayed on: both messages were sent.
C3_Witness ==
    /\ lastPoll.outcome = "ok"
    /\ \E p, q \in PlayersOf(lastPoll.game) :
          /\ p # q
          /\ Count(events, <<"join", lastPoll.game, p>>) = 1
          /\ Count(events, <<"leave", lastPoll.game, q>>) = 1
          /\ current_players[lastPoll.game] = {p}

\* C4: whatever the ledger held when the process dies (every entry of it was
\* recorded by an update call that had returned) is what load_stats recovers
\* from the stats file, also when the process dies inside a later save_stats.
C4_LedgerSurvivesCrash ==
    [][(proc = "up" /\ proc' = "down") =>
          load_stats(stats_file') = player_stats]_vars

\* C11: the first listing of a game after a restart sends no Join message and
\* creates no join-time entry for a listed player who was online when the
\* process started.
C11_NoJoinForOnlineAtStart ==
    [][lastPoll'.outcome = "ok" =>
          LET g == lastPoll'.game IN
          \A p \in lastPoll'.players :
              <<g, p>> \in online_at_start =>
                  /\ Count(events', <<"join", g, p>>) = 0
                  /\ join_times'[g][p] = NoTime]_vars

\* C12: when a listing no longer holds a player whose join was observed at
\* time t1 by this process, the leave at time t2 adds exactly t2 - t1 to the
\* player's total playtime and removes the player's join-time entry.
C12_PlaytimeIsSessionLength ==
    [][lastPoll'.outcome = "ok" =>
          LET g == lastPoll'.game IN
          \A p \in current_players[g] \ lastPoll'.players :
              join_times[g][p] # NoTime =>
                  /\ player_stats'[<<g, p>>].total_playtime_seconds
                        = player_stats[<<g, p>>].total_playtime_seconds
                          + (now - join_times[g][p])
                  /\ player_stats'[<<g, p>>].first_join
                        = player_stats[<<g, p>>].first_join
                  /\ join_times'[g][p] = NoTime]_vars

\* A Leave has just been sent for a player who joined at time 0 and left at a
\* later time: the whole session is in the ledger.
C12_Witness ==
    /\ lastPoll.outcome = "ok"
    /\ now > 0
    /\ \E p \in PlayersOf(lastPoll.game) :
          /\ Count(events, <<"leave", lastPoll.game, p>>) = 1
          /\ player_stats[<<lastPoll.game, p>>].first_join = 0
          /\ player_stats[<<lastPoll.game, p>>].total_playtime_seconds = now
          /\ join_times[lastPoll.game][p] = NoTime

\* C27: whatever fails in a game's check_server call, the iteration goes on
\* with the other game and the task goes on running: after the check of
\* Minecraft the check of Palworld is next, after the check of Palworld the
\* check of Minecraft of the next iteration.
C27_FailureIsPerGame ==
    [][lastPoll'.game \in MonGames =>
          mon_pc' = NextGame(lastPoll'.game)]_vars

C30_JoinedAndLeftDisjoint ==
    \A g \in MonGames : \A p \in PlayersOf(g) :
        ~ /\ Count(events, <<"join", g, p>>) > 0
          /\ Count(events, <<"leave", g, p>>) > 0

\* A call that found one player joined and another one left.
C30_Witness ==
    \E g \in MonGames : \E p, q \in PlayersOf(g) :
        /\ Count(events, <<"join", g, p>>) > 0
        /\ Count(events, <<"leave", g, q>>) > 0

(***************************************************************************)
(*        SINGLE-SERVER PALWORLD MONITOR (palworld_bot.py)                 *)
(***************************************************************************)
\* What an iteration of monitor_rcon_task finds: the bot not ready or the
\* target channel missing, a ConnectionError of _get_current_players, or the
\* names of a parsed ShowPlayers listing.
PalPolls ==
    [outcome : {"ok"}, players : SUBSET Players]
        \cup [outcome : {"not_ready", "connection_error"}, players : {{}}]

NoPalPoll == [outcome |-> "none", players |-> {}, last |-> {}]

RECURSIVE Announce(_, _)
Announce(kind, todo) ==
    IF todo = <<>> THEN <<>>
    ELSE <<<<kind, "pal", Head(todo)>>>> \o Announce(kind, Tail(todo))

\* Lines 142-154: the joins are announced, then the leaves.
PalMessages(current_player_set, last) ==
    Announce("join", SetToSeq(current_player_set \ last))
        \o Announce("leave", SetToSeq(last \ current_player_set))

PalVarsInit ==
    /\ program = "palworld"
    /\ last_player_set = {}
    /\ pw_events = <<>>
    /\ pw_lastPoll = NoPalPoll
    /\ pw_polled = FALSE

\* The Palworld bot is not the program that runs.
PalIdle ==
    /\ program = "monitor"
    /\ last_player_set = {}
    /\ pw_events = <<>>
    /\ pw_lastPoll = NoPalPoll
    /\ pw_polled = FALSE

\* One iteration of monitor_rcon_task (lines 115-157).
MonitorRconTask ==
    /\ program = "palworld"
    /\ \E poll \in PalPolls :
          /\ pw_lastPoll' = [outcome |-> poll.outcome, players |-> poll.players,
                             last |-> last_player_set]
          /\ IF poll.outcome # "ok"
             THEN /\ pw_events' = <<>>
                  /\ UNCHANGED last_player_set
             ELSE IF last_player_set = {}
             THEN /\ pw_events' = <<>>
                  /\ last_player_set' = poll.players
             ELSE /\ pw_events' = PalMessages(poll.players, last_player_set)
                  /\ last_player_set' = poll.players
          /\ pw_polled' = (pw_polled \/ poll.outcome = "ok")
    /\ UNCHANGED <<program, nonPalVars>>

\* The positions of the Join and of the Leave messages in a tick's messages.
JoinsBeforeLeaves(seq) ==
    \A i, j \in 1..Len(seq) :
        (seq[i][1] = "join" /\ seq[j][1] = "leave") => i < j

\* C18: in the messages of one reconciliation tick, of the multi-game monitor
\* and of the Palworld monitor, every Join comes before every Leave.
C18_JoinsBeforeLeaves ==
    JoinsBeforeLeaves(events) /\ JoinsBeforeLeaves(pw_events)

\* A tick of the multi-game monitor that sent a Join and a Leave.
C18_Witness ==
    /\ lastPoll.outcome = "ok"
    /\ \E i, j \in 1..Len(events) :
          events[i][1] = "join" /\ events[j][1] = "leave"

\* C33: every successful poll of the Palworld monitor after the first one
\* announces one join per player of the current set that is not in
\* last_player_set and one leave per player of last_player_set that is not
\* in the current set, also when last_player_set is empty, and then
\* last_player_set is the current set.
C33_EveryLaterPollIsDiffed ==
    [][(pw_polled /\ pw_lastPoll'.outcome = "ok") =>
          LET O == last_player_set
              N == pw_lastPoll'.players
          IN /\ last_player_set' = N
             /\ \A p \in Players :
                   /\ Count(pw_events', <<"join", "pal", p>>)
                         = (IF p \in N \ O THEN 1 ELSE 0)
                   /\ Count(pw_events', <<"leave", "pal", p>>)
                         = (IF p \in O \ N THEN 1 ELSE 0)]_vars

(***************************************************************************)
(* The ledger functions on their own: update_player_join and               *)
(* update_player_leave called in any order for any player, with a wall     *)
(* clock (datetime.now(), naive local time) that can be set back.          *)
(***************************************************************************)
LedgerKeys == {k \in Keys : k[2] = "p1"}

\* The globals the two functions read and write.
LedgerState ==
    [stats |-> player_stats, file |-> stats_file, jt |-> join_times,
     cur |-> current_players, ev |-> <<>>, saves |-> 0]

\* The playtime totals the model follows.
TotalsInRange(stats) ==
    \A k \in Keys :
        stats[k] # NoEntry =>
            stats[k].total_playtime_seconds \in (0 - MaxTotal)..MaxTotal

\* A call update_player_join(game, player).
LedgerJoin(game, player) ==
    /\ proc = "up"
    /\ LET r == update_player_join(LedgerState, game, player, now) IN
          /\ player_stats' = r.stats
          /\ stats_file' = r.file
          /\ join_times' = r.jt
    /\ events' = << <<"update_player_join", game, player,
                      IF player_stats[<<game, player>>] = NoEntry
                      THEN "new" ELSE "known">> >>
    /\ UNCHANGED <<proc, mon_pc, now, current_players, lastPoll,
                   online_at_start, nonMonVars>>

\* A call update_player_leave(game, player).
LedgerLeave(game, player) ==
    /\ proc = "up"
    /\ LET r == update_player_leave(LedgerState, game, player, now) IN
          /\ TotalsInRange(r.stats)
          /\ player_stats' = r.stats
          /\ stats_file' = r.file
          /\ join_times' = r.jt
    /\ events' = << <<"update_player_leave", game, player,
                      IF join_times[game][player] = NoTime
                      THEN "untracked" ELSE "tracked">> >>
    /\ UNCHANGED <<proc, mon_pc, now, current_players, lastPoll,
                   online_at_start, nonMonVars>>

\* The wall clock changes, forwards or backwards.
LedgerClock ==
    /\ \E t \in 0..MaxTime : t # now /\ now' = t
    /\ events' = <<>>
    /\ UNCHANGED <<proc, mon_pc, player_stats, stats_file, current_players,
                   join_times, lastPoll, online_at_start, nonMonVars>>

\* C13: update_player_leave for a player with no join-time entry changes
\* neither the ledger in memory, nor the stats file, nor any join-time map.
C13_UntrackedLeaveIsNoOp ==
    [][\A k \in LedgerKeys :
          events' = << <<"update_player_leave", k[1], k[2], "untracked">> >>
              => /\ player_stats' = player_stats
                 /\ stats_file' = stats_file
                 /\ join_times' = join_times]_vars

\* update_player_leave has just returned for a player who has a ledger entry
\* and had no join-time entry.
C13_Witness ==
    \E k \in LedgerKeys :
        /\ events = << <<"update_player_leave", k[1], k[2], "untracked">> >>
        /\ player_stats[k] # NoEntry
        /\ \E j \in LedgerKeys : join_times[j[1]][j[2]] # NoTime

\* C14: the total playtime of a ledger entry never decreases, whatever the
\* clock reads at the join and at the leave.
C14_PlaytimeNeverDecreases ==
    [][\A k \in Keys :
          (player_stats[k] # NoEntry /\ player_stats'[k] # NoEntry)
              => player_stats'[k].total_playtime_seconds
                    >= player_stats[k].total_playtime_seconds]_vars

\* C15: update_player_join for a player who has a ledger entry leaves the
\* entry as it is, and the first_join of an entry never changes.
C15_FirstJoinSetOnce ==
    [][/\ \A k \in LedgerKeys :
             events' = << <<"update_player_join", k[1], k[2], "known">> >>
                 => player_stats'[k] = player_stats[k]
       /\ \A k \in Keys :
             player_stats[k] # NoEntry
                 => player_stats'[k].first_join = player_stats[k].first_join]_vars

\* update_player_join has just returned for a player whose entry was created
\* at another clock reading and holds playtime.
C15_Witness ==
    \E k \in LedgerKeys :
        /\ events = << <<"update_player_join", k[1], k[2], "known">> >>
        /\ player_stats[k].first_join # now
        /\ player_stats[k].total_playtime_seconds > 0
        /\ join_times[k[1]][k[2]] = now

(***************************************************************************)
(*                               RCON MANAGER                              *)
(***************************************************************************)
\* The coroutines that call send_command on one manager: player_monitor_task
\* (through get_players), scheduled_actions_task and the operator commands.
Callers == {"monitor", "sched", "cmd"}

NoClient == 0

RconVarsInit ==
    /\ rc_client = NoClient
    /\ rc_connected = FALSE
    /\ rc_last_error = "none"
    /\ rc_created = 0
    /\ conn_open = {}
    /\ call_pc = [c \in Callers |-> "idle"]
    /\ call_client = [c \in Callers |-> NoClient]
    /\ call_result = [c \in Callers |-> "none"]

\* The mutant of ConnectionCached: the cached state is never used.
ConnectionCachedNever == FALSE

\* Line 149: connect returns True at once when a connection is cached.
ConnectionCached == rc_connected /\ rc_client # NoClient

\* The mutant of ConnectedAfterFailure: the flag is left as it was.
ConnectedAfterFailureKept == rc_connected

\* Lines 159, 173 and 177: self.connected = False
ConnectedAfterFailure == FALSE

\* send_command after connect returned True: self.client.send(command) is
\* called on whatever self.client holds now. With self.client None the
\* attribute error is caught by the handler of lines 176-179.
BeginSend(c) ==
    IF rc_client = NoClient
    THEN /\ rc_connected' = ConnectedAfterFailure
         /\ rc_last_error' = "send_failed"
         /\ call_pc' = [call_pc EXCEPT ![c] = "idle"]
         /\ call_client' = [call_client EXCEPT ![c] = NoClient]
         /\ call_result' = [call_result EXCEPT ![c] = "error"]
    ELSE /\ call_pc' = [call_pc EXCEPT ![c] = "sending"]
         /\ call_client' = [call_client EXCEPT ![c] = rc_client]
         /\ UNCHANGED <<rc_connected, rc_last_error, call_result>>

\* A caller enters send_command while a connection is cached: connect returns
\* True without awaiting and the send starts (lines 149-150, 166-170).
SendCommandCached(c) ==
    /\ call_pc[c] = "idle"
    /\ ConnectionCached
    /\ BeginSend(c)
    /\ UNCHANGED <<rc_client, rc_created, conn_open, nonRconVars>>

\* A caller enters send_command with no cached connection: connect creates a
\* new RconAsync, stores it in self.client and awaits its connect()
\* (lines 152-154).
SendCommandConnect(c) ==
    /\ call_pc[c] = "idle"
    /\ ~ConnectionCached
    /\ rc_created < MaxClients
    /\ rc_created' = rc_created + 1
    /\ rc_client' = rc_created + 1
    /\ call_pc' = [call_pc EXCEPT ![c] = "connecting"]
    /\ call_client' = [call_client EXCEPT ![c] = rc_created + 1]
    /\ UNCHANGED <<rc_connected, rc_last_error, conn_open, call_result,
                   nonRconVars>>

\* The awaited connect() succeeded: the connection of that object is open,
\* connect returns True (lines 155-157) and send_command starts the send.
ConnectSucceeds(c) ==
    /\ call_pc[c] = "connecting"
    /\ conn_open' = conn_open \cup {call_client[c]}
    /\ IF rc_client = NoClient
       THEN BeginSend(c)
       ELSE /\ rc_connected' = TRUE
            /\ rc_last_error' = "none"
            /\ call_pc' = [call_pc EXCEPT ![c] = "sending"]
            /\ call_client' = [call_client EXCEPT ![c] = rc_client]
            /\ UNCHANGED call_result
    /\ UNCHANGED <<rc_client, rc_created, nonRconVars>>

\* The awaited connect() raised: lines 158-162, and send_command returns the
\* "ERROR: Not connected" text.
ConnectFails(c) ==
    /\ call_pc[c] = "connecting"
    /\ rc_connected' = ConnectedAfterFailure
    /\ rc_client' = NoClient
    /\ rc_last_error' = "connect_failed"
    /\ call_pc' = [call_pc EXCEPT ![c] = "idle"]
    /\ call_client' = [call_client EXCEPT ![c] = NoClient]
    /\ call_result' = [call_result EXCEPT ![c] = "error"]
    /\ UNCHANGED <<rc_created, conn_open, nonRconVars>>

\* The awaited send() returned a response (line 171).
SendSucceeds(c) ==
    /\ call_pc[c] = "sending"
    /\ call_client[c] \in conn_open
    /\ call_pc' = [call_pc EXCEPT ![c] = "idle"]
    /\ call_client' = [call_client EXCEPT ![c] = NoClient]
    /\ call_result' = [call_result EXCEPT ![c] = "ok"]
    /\ UNCHANGED <<rc_client, rc_connected, rc_last_error, rc_created, conn_open,
                   nonRconVars>>

\* The awaited send() raised (lines 172-179): the manager is marked
\* disconnected and keeps the object; nothing closes it. The failure either
\* leaves the connection open (a timeout, a protocol error) or is the peer
\* closing it.
SendFails(c) ==
    /\ call_pc[c] = "sending"
    /\ \E still_open \in BOOLEAN :
          conn_open' = IF still_open THEN conn_open
                       ELSE conn_open \ {call_client[c]}
    /\ rc_connected' = ConnectedAfterFailure
    /\ rc_last_error' = "send_failed"
    /\ call_pc' = [call_pc EXCEPT ![c] = "idle"]
    /\ call_client' = [call_client EXCEPT ![c] = NoClient]
    /\ call_result' = [call_result EXCEPT ![c] = "error"]
    /\ UNCHANGED <<rc_client, rc_created, nonRconVars>>

InFlight == {c \in Callers : call_pc[c] # "idle"}

\* C6: at most one send_command call of a manager is between its start and
\* its return at any time.
C6_OneRequestInFlight == Cardinality(InFlight) <= 1

\* C7: at most one connection of a manager is open at any time, and it is the
\* connection of the object the manager holds.
C7_OneOpenConnection ==
    /\ Cardinality(conn_open) <= 1
    /\ conn_open \subseteq {rc_client}

\* C19: a send_command call in which the connect or the send failed returns
\* an error text, and at its return the manager is marked disconnected with
\* last_error naming that failure.
C19_FailureMarksDisconnected ==
    [][\A c \in Callers :
          call_pc[c] # "idle" /\ call_pc'[c] = "idle"
              => \/ /\ call_pc[c] = "sending"
                    /\ call_result'[c] = "ok"
                    /\ call_client[c] \in conn_open
                 \/ /\ call_result'[c] = "error"
                    /\ rc_connected' = FALSE
                    /\ rc_last_error'
                          = (IF call_pc[c] = "connecting" /\ conn_open' = conn_open
                             THEN "connect_failed" ELSE "send_failed")]_vars

\* A call has returned an error after a failed send on a connection that was
\* in use: the manager is disconnected and holds the reason.
C19_Witness ==
    \E c \in Callers :
        /\ call_pc[c] = "idle"
        /\ call_result[c] = "error"
        /\ ~rc_connected
        /\ rc_last_error = "send_failed"
        /\ rc_client # NoClient

\* C20: a call starts a handshake iff no connection is cached when it
\* enters, the handshake it starts is the only one it makes, and a failed
\* connect or send ends the call.
C20_HandshakeOnlyWhenDisconnected ==
    [][\A c \in Callers :
          /\ (call_pc[c] = "idle" /\ call_pc'[c] # "idle") =>
                IF rc_connected /\ rc_client # NoClient
                THEN rc_created' = rc_created /\ call_pc'[c] = "sending"
                ELSE /\ rc_created' = rc_created + 1
                     /\ call_pc'[c] = "connecting"
                     /\ call_client'[c] = rc_created'
          /\ (call_pc[c] = "connecting" /\ call_pc'[c] = "connecting")
                => call_client'[c] = call_client[c]
          /\ call_pc[c] = "sending" => call_pc'[c] \in {"sending", "idle"}
          /\ (call_pc[c] # "idle" /\ call_pc'[c] # "idle")
                => call_result'[c] = call_result[c]
          /\ (\A d \in Callers : call_pc[d] = "idle" <=> call_pc'[d] = "idle")
                => rc_created' = rc_created]_vars

\* A caller whose previous call failed is in its next call, connecting with
\* a client created for that call.
C20_Witness ==
    \E c \in Callers :
        /\ call_result[c] = "error"
        /\ call_pc[c] = "connecting"
        /\ call_client[c] = rc_created
        /\ rc_created >= 2
        /\ \A d \in Callers \ {c} : call_pc[d] = "idle" /\ call_result[d] = "none"

(***************************************************************************)
(*                          SMART-RESTART SCHEDULER                        *)
(***************************************************************************)
\* Time is counted in units of 1/UnitsPerMinute of a minute. The loop runs
\* every 60 seconds, that is every UnitsPerMinute units; an iteration reads the
\* clock up to MaxJitter units after the time it was scheduled for. A day has
\* DayMinutes minutes, and time_utc names one of them.
LoopInterval == UnitsPerMinute
DayUnits == DayMinutes * UnitsPerMinute

\* now_utc.strftime('%H:%M'): the minute of the day the clock reading is in.
current_time_str(clock) == (clock \div UnitsPerMinute) % DayMinutes

\* smart_restart_config["schedule"]: a restart announced with a message, and
\* a silent save.
Schedule ==
    << [time_utc |-> 1, message |-> "restart", commands |-> <<"save">>,
        shutdown_commands |-> <<"stop">>],
       [time_utc |-> 3, message |-> "", commands |-> <<"save">>,
        shutdown_commands |-> <<>>] >>

ScheduleIds == 1..Len(Schedule)

\* The order in which the task addresses the cogs.
CogOrder == <<"mc", "pal", "ark">>

LoadedCogs(cogs) == SelectSeq(CogOrder, LAMBDA g : g \in cogs)

\* Lines 1240-1247: the broadcast, for a non-empty message, to each loaded cog.
Broadcasts(e, cogs) ==
    IF Schedule[e].message = "" THEN <<>>
    ELSE [i \in 1..Len(LoadedCogs(cogs)) |->
             <<e, "broadcast", LoadedCogs(cogs)[i], Schedule[e].message>>]

\* Lines 1250-1254 and 1257-1261: each command of the list to each loaded cog.
RECURSIVE CommandLoop(_, _, _, _)
CommandLoop(e, phase, cmds, cogs) ==
    IF cmds = <<>> THEN <<>>
    ELSE [i \in 1..Len(LoadedCogs(cogs)) |->
             <<e, phase, LoadedCogs(cogs)[i], Head(cmds)>>]
         \o CommandLoop(e, phase, Tail(cmds), cogs)

\* The mutant of FireEvent: the servers are shut down first.
FireEventShutdownFirst(e, cogs) ==
    CommandLoop(e, "shutdown", Schedule[e].shutdown_commands, cogs)
        \o Broadcasts(e, cogs)
        \o CommandLoop(e, "save", Schedule[e].commands, cogs)

\* Everything one firing of event e sends (lines 1233-1261).
FireEvent(e, cogs) ==
    Broadcasts(e, cogs)
        \o CommandLoop(e, "save", Schedule[e].commands, cogs)
        \o CommandLoop(e, "shutdown", Schedule[e].shutdown_commands, cogs)

\* Line 1232: event.get("time_utc") == current_time_str
EventDue(e, minute) == Schedule[e].time_utc = minute

RECURSIVE ScheduleLoop(_, _, _)
ScheduleLoop(e, minute, cogs) ==
    IF e > Len(Schedule) THEN <<>>
    ELSE (IF EventDue(e, minute) THEN FireEvent(e, cogs) ELSE <<>>)
         \o ScheduleLoop(e + 1, minute, cogs)

\* The mutant of Delivered: the first failed RCON call ends the iteration.
DeliveredUntilFailure(planned, down) ==
    LET failures == {i \in 1..Len(planned) : planned[i][3] \in down} IN
    IF failures = {} THEN planned
    ELSE SubSeq(planned, 1, CHOOSE i \in failures : \A j \in failures : i <= j)

\* The RCON calls an iteration makes of those it has planned, when the calls
\* to the cogs in down fail: run_rcon_command (lines 238-248) turns every
\* exception of the call into an "RCON_ERROR" text, so the iteration goes on.
Delivered(planned, down) == planned

SchedVarsInit ==
    /\ sch_cogs \in SUBSET {"mc", "pal", "ark"}
    /\ sch_next \in 0..(UnitsPerMinute - 1)
    /\ sch_sent = <<>>
    /\ sch_minute = -1
    /\ sch_fires = [e \in ScheduleIds |-> 0]
    /\ sch_down = {}
    /\ sch_running = TRUE

SchedIdle ==
    /\ sch_cogs = {}
    /\ sch_next = 0
    /\ sch_sent = <<>>
    /\ sch_minute = -1
    /\ sch_fires = [e \in ScheduleIds |-> 0]
    /\ sch_down = {}
    /\ sch_running = TRUE

\* One iteration of smart_restart_task. Two successive iterations read the
\* clock less than two minutes apart, so they read the same minute of the day
\* only within one calendar minute.
SmartRestartTask ==
    /\ sch_running
    /\ \E jitter \in 0..MaxJitter, down \in SUBSET sch_cogs :
        LET minute == current_time_str(sch_next + jitter)
            planned == ScheduleLoop(1, minute, sch_cogs)
        IN
        /\ planned = <<>> => down = {}
        /\ sch_sent' = Delivered(planned, down)
        /\ sch_running' = (sch_sent' = planned)
        /\ sch_down' = down
        /\ sch_minute' = minute
        /\ sch_fires' =
              [e \in ScheduleIds |->
                  (IF minute = sch_minute THEN sch_fires[e] ELSE 0)
                  + (IF EventDue(e, minute) THEN 1 ELSE 0)]
    /\ sch_next' = (sch_next + LoopInterval) % DayUnits
    /\ UNCHANGED <<sch_cogs, nonSchedVars>>

\* C5: no scheduled event fires more than once within one UTC calendar
\* minute, however many iterations of the task fall into that minute.
C5_OneFiringPerMinute ==
    \A e \in ScheduleIds :
        FireEvent(e, sch_cogs) # <<>> => sch_fires[e] <= 1

PhaseRank(phase) ==
    CASE phase = "broadcast" -> 1
      [] phase = "save" -> 2
      [] phase = "shutdown" -> 3

\* The events the last iteration fired.
DueEvents == {e \in ScheduleIds : Schedule[e].time_utc = sch_minute}

\* The number of RCON calls of the last iteration that sent text to cog g
\* in the given phase of event e.
SentCount(e, phase, g, text) ==
    Cardinality({i \in 1..Len(sch_sent) : sch_sent[i] = <<e, phase, g, text>>})

\* C21: for each event that fires, the broadcast goes to every loaded game
\* (and only when the message is not empty), then every maintenance command
\* to every game, then every shutdown command to every game.
C21_BroadcastSaveShutdownOrder ==
    /\ \A i, j \in 1..Len(sch_sent) :
          (i < j /\ sch_sent[i][1] = sch_sent[j][1])
              => PhaseRank(sch_sent[i][2]) <= PhaseRank(sch_sent[j][2])
    /\ \A e \in DueEvents, g \in sch_cogs :
          /\ SentCount(e, "broadcast", g, Schedule[e].message)
                = (IF Schedule[e].message = "" THEN 0 ELSE 1)
          /\ \A k \in 1..Len(Schedule[e].commands) :
                SentCount(e, "save", g, Schedule[e].commands[k]) = 1
          /\ \A k \in 1..Len(Schedule[e].shutdown_commands) :
                SentCount(e, "shutdown", g, Schedule[e].shutdown_commands[k]) = 1

\* An event with a message, a maintenance command and a shutdown command has
\* fired with at least two games loaded.
C21_Witness ==
    /\ Cardinality(sch_cogs) >= 2
    /\ \E e \in DueEvents :
          /\ Schedule[e].message # ""
          /\ Schedule[e].commands # <<>>
          /\ Schedule[e].shutdown_commands # <<>>
          /\ Len(sch_sent) = 3 * Cardinality(sch_cogs)

\* C22: when the RCON calls to some games fail during an event, every
\* broadcast and command of the event is still sent to each other game, and
\* the task goes on running.
C22_FailureDoesNotBlockOthers ==
    /\ sch_running
    /\ \A e \in DueEvents, g \in sch_cogs \ sch_down :
          /\ Schedule[e].message # ""
                => SentCount(e, "broadcast", g, Schedule[e].message) >= 1
          /\ \A k \in 1..Len(Schedule[e].commands) :
                SentCount(e, "save", g, Schedule[e].commands[k]) >= 1
          /\ \A k \in 1..Len(Schedule[e].shutdown_commands) :
                SentCount(e, "shutdown", g, Schedule[e].shutdown_commands[k]) >= 1

\* An event has fired while the RCON calls to the first game addressed
\* failed and another game was loaded; the task runs on.
C22_Witness ==
    /\ sch_running
    /\ sch_sent # <<>>
    /\ sch_sent[1][3] \in sch_down
    /\ sch_cogs \ sch_down # {}
    /\ \E i \in 1..Len(sch_sent) : sch_sent[i][3] \notin sch_down

(***************************************************************************)
(*                            LOG-TAIL PIPELINE                            *)
(***************************************************************************)
\* The games with a configured log path, in the order of self.log_paths.
LogGames == {"mc", "pal"}
NextLogGame(game) == IF game = "mc" THEN "pal" ELSE "mc"

\* A file is a sequence of characters. The line terminator is NL; every other
\* character is the number of the write that produced it, so that each
\* character of a log can be told from every other.
NL == 0

CharsOf(content) == {content[i] : i \in 1..Len(content)} \ {NL}

\* f.readlines(): the data cut after each terminator; what follows the last
\* terminator is returned as a last line without one.
RECURSIVE readlines(_, _)
readlines(data, cur) ==
    IF data = <<>> THEN (IF cur = <<>> THEN <<>> ELSE <<cur>>)
    ELSE IF Head(data) = NL
         THEN <<Append(cur, NL)>> \o readlines(Tail(data), <<>>)
         ELSE readlines(Tail(data), Append(cur, Head(data)))

\* line.strip()
strip(line) == SelectSeq(line, LAMBDA ch : ch # NL)

\* The non-empty newline-terminated lines of a file, stripped.
CompleteLines(content) ==
    LET ls == readlines(content, <<>>) IN
    {strip(ls[i]) : i \in {j \in 1..Len(ls) : ls[j][Len(ls[j])] = NL}} \ {<<>>}

\* The mutant of AttachPosition: the file is read from its start.
AttachPositionStart(content) == 0

\* Line 1327: f.seek(0, io.SEEK_END)
AttachPosition(content) == Len(content)

\* The file a game's handle reads: the file at the path, or the replaced file
\* the handle still holds.
ReadContent(game) ==
    IF fh_stale[game] THEN fh_content[game] ELSE log_file[game]

\* What f.readlines() returns at the handle's position: nothing at or past
\* the end of the file.
NewLines(game) ==
    LET content == ReadContent(game) IN
    IF fh_pos[game] >= Len(content) THEN <<>>
    ELSE readlines(SubSeq(content, fh_pos[game] + 1, Len(content)), <<>>)

PositionAfterRead(game) ==
    IF fh_pos[game] >= Len(ReadContent(game)) THEN fh_pos[game]
    ELSE Len(ReadContent(game))

\* Lines 1348-1349 with 1366-1367: each line read is stripped and given to
\* parse_log_line, which drops an empty line.
RECURSIVE ParsedLines(_)
ParsedLines(lines) ==
    IF lines = <<>> THEN <<>>
    ELSE (IF strip(Head(lines)) = <<>> THEN <<>> ELSE <<strip(Head(lines))>>)
         \o ParsedLines(Tail(lines))

LogVarsInit ==
    /\ log_watching = FALSE
    /\ log_file = [g \in LogGames |-> <<>>]
    /\ log_written = 0
    /\ log_rotations = 0
    /\ fh_open = [g \in LogGames |-> FALSE]
    /\ fh_stale = [g \in LogGames |-> FALSE]
    /\ fh_content = [g \in LogGames |-> <<>>]
    /\ fh_pos = [g \in LogGames |-> 0]
    /\ log_pc = "mc"
    /\ log_pending = 0
    /\ log_processed = [g \in LogGames |-> <<>>]
    /\ log_snapshot = [g \in LogGames |-> {}]
    /\ log_rotated = [g \in LogGames |-> FALSE]
    /\ log_dirty = [g \in LogGames |-> FALSE]

\* start_monitoring: every log file is opened and its handle moved to the end
\* (lines 1318-1331).
start_monitoring ==
    /\ fh_open' = [g \in LogGames |-> TRUE]
    /\ fh_stale' = [g \in LogGames |-> FALSE]
    /\ fh_content' = [g \in LogGames |-> <<>>]
    /\ fh_pos' = [g \in LogGames |-> AttachPosition(log_file[g])]
    /\ log_snapshot' = [g \in LogGames |-> CharsOf(log_file[g])]
    /\ log_dirty' = [g \in LogGames |-> TRUE]

\* start_watching: start_monitoring, then the observer is started
\* (lines 1446-1465).
StartWatching ==
    /\ ~log_watching
    /\ log_watching' = TRUE
    /\ start_monitoring
    /\ UNCHANGED <<log_file, log_written, log_rotations, log_pc, log_pending,
                   log_processed, log_rotated, nonLogVars>>

\* The game server writes one character of a line to its log.
AppendChar(game) ==
    /\ log_written < MaxWrites
    /\ log_written' = log_written + 1
    /\ log_file' = [log_file EXCEPT ![game] = Append(@, log_written + 1)]
    /\ log_dirty' = [log_dirty EXCEPT ![game] = TRUE]
    /\ UNCHANGED <<log_watching, log_rotations, fh_open, fh_stale, fh_content,
                   fh_pos, log_pc, log_pending, log_processed, log_snapshot,
                   log_rotated, nonLogVars>>

\* The game server writes a one-character line and its terminator at once.
AppendLine(game) ==
    /\ log_written < MaxWrites
    /\ log_written' = log_written + 1
    /\ log_file' = [log_file EXCEPT ![game] = @ \o <<log_written + 1, NL>>]
    /\ log_dirty' = [log_dirty EXCEPT ![game] = TRUE]
    /\ UNCHANGED <<log_watching, log_rotations, fh_open, fh_stale, fh_content,
                   fh_pos, log_pc, log_pending, log_processed, log_snapshot,
                   log_rotated, nonLogVars>>

\* The game server terminates the line it is writing.
AppendNewline(game) ==
    /\ log_written < MaxWrites
    /\ log_written' = log_written + 1
    /\ log_file' = [log_file EXCEPT ![game] = Append(@, NL)]
    /\ log_dirty' = [log_dirty EXCEPT ![game] = TRUE]
    /\ UNCHANGED <<log_watching, log_rotations, fh_open, fh_stale, fh_content,
                   fh_pos, log_pc, log_pending, log_processed, log_snapshot,
                   log_rotated, nonLogVars>>

\* The log is truncated in place: the file keeps its identity, an open handle
\* keeps its position, and the observer reports a modification, which
\* on_modified ignores (lines 1353-1356).
Truncate(game) ==
    /\ log_rotations < MaxRotations
    /\ log_file[game] # <<>>
    /\ log_rotations' = log_rotations + 1
    /\ log_file' = [log_file EXCEPT ![game] = <<>>]
    /\ log_rotated' = [log_rotated EXCEPT ![game] = @ \/ log_watching]
    /\ log_dirty' = [log_dirty EXCEPT ![game] = TRUE]
    /\ UNCHANGED <<log_watching, log_written, fh_open, fh_stale, fh_content,
                   fh_pos, log_pc, log_pending, log_processed, log_snapshot,
                   nonLogVars>>

\* The log is replaced: the old file is moved away and a new empty file is
\* created at the path. An open handle stays on the old file; the observer,
\* once started, queues a "created" event.
Replace(game) ==
    /\ log_rotations < MaxRotations
    /\ log_watching => log_pending < MaxPending
    /\ log_rotations' = log_rotations + 1
    /\ log_file' = [log_file EXCEPT ![game] = <<>>]
    /\ IF fh_open[game] /\ ~fh_stale[game]
       THEN /\ fh_stale' = [fh_stale EXCEPT ![game] = TRUE]
            /\ fh_content' = [fh_content EXCEPT ![game] = log_file[game]]
       ELSE UNCHANGED <<fh_stale, fh_content>>
    /\ log_pending' = IF log_watching THEN log_pending + 1 ELSE log_pending
    /\ log_rotated' = [log_rotated EXCEPT ![game] = @ \/ log_watching]
    /\ log_dirty' = [log_dirty EXCEPT ![game] = TRUE]
    /\ UNCHANGED <<log_watching, log_written, fh_open, fh_pos, log_pc,
                   log_processed, log_snapshot, nonLogVars>>

\* Another file is created in a watched directory.
OtherFileCreated ==
    /\ log_watching
    /\ log_pending < MaxPending
    /\ log_pending' = log_pending + 1
    /\ UNCHANGED <<log_watching, log_file, log_written, log_rotations, fh_open,
                   fh_stale, fh_content, fh_pos, log_pc, log_processed,
                   log_snapshot, log_rotated, log_dirty, nonLogVars>>

\* on_created: stop_monitoring closes every handle and start_monitoring opens
\* every log again (lines 1358-1362).
OnCreated ==
    /\ log_watching
    /\ log_pending > 0
    /\ log_pending' = log_pending - 1
    /\ start_monitoring
    /\ UNCHANGED <<log_watching, log_file, log_written, log_rotations, log_pc,
                   log_processed, log_rotated, nonLogVars>>

\* process_new_lines for one game of its loop (lines 1344-1351); the loop
\* goes through the games in order, and log_reader_task runs it again.
ProcessNewLines(game) ==
    /\ log_pc = game
    /\ log_pc' = NextLogGame(game)
    /\ IF fh_open[game]
       THEN /\ log_processed' = [log_processed EXCEPT ![game] =
                                    @ \o ParsedLines(NewLines(game))]
            /\ fh_pos' = [fh_pos EXCEPT ![game] = PositionAfterRead(game)]
            /\ log_dirty' = [log_dirty EXCEPT ![game] = FALSE]
       ELSE UNCHANGED <<log_processed, fh_pos, log_dirty>>
    /\ UNCHANGED <<log_watching, log_file, log_written, log_rotations, fh_open,
                   fh_stale, fh_content, log_pending, log_snapshot, log_rotated,
                   nonLogVars>>

\* The lines given to parse_log_line by the step just taken.
NewlyProcessed(game) ==
    {log_processed'[game][i] :
        i \in (Len(log_processed[game]) + 1)..Len(log_processed'[game])}

\* The number of processed lines of a game that hold character ch.
TimesProcessed(game, ch) ==
    Cardinality({i \in 1..Len(log_processed[game]) :
                    ch \in CharsOf(log_processed[game][i])})

\* A watched log is settled when it was read after its last change and no
\* rotation event is waiting.
Settled(game) ==
    /\ log_watching
    /\ fh_open[game]
    /\ ~log_dirty[game]
    /\ log_pending = 0

\* C8: once a watched log has been truncated or replaced and the lines written
\* since have been read, each of these lines has been given to pattern
\* matching, and no line was given to it twice.
C8_RotationKeepsNewLines ==
    \A g \in LogGames :
        (log_rotated[g] /\ Settled(g)) =>
            /\ \A line \in CompleteLines(log_file[g]) :
                  \E i \in 1..Len(log_processed[g]) : log_processed[g][i] = line
            /\ \A ch \in 1..log_written : TimesProcessed(g, ch) <= 1

\* C9: every line process_new_lines gives to pattern matching is a complete,
\* newline-terminated line of the file it was read from.
C9_OnlyCompleteLines ==
    [][\A g \in LogGames :
          NewlyProcessed(g) \subseteq CompleteLines(ReadContent(g))]_vars

\* C10: no character that was in the file when the current handle was opened
\* is in a line given to parse_log_line.
C10_NoHistoryReplayed ==
    [][\A g \in LogGames :
          \A line \in NewlyProcessed(g) :
              CharsOf(line) \cap log_snapshot[g] = {}]_vars

\* A log that held a line when its handle was opened, still holds it, and
\* from which a line appended later has been processed.
C10_Witness ==
    \E g \in LogGames :
        /\ log_snapshot[g] # {}
        /\ log_snapshot[g] \subseteq CharsOf(log_file[g])
        /\ fh_open[g] /\ ~fh_stale[g]
        /\ \E i \in 1..Len(log_processed[g]) :
              /\ CharsOf(log_processed[g][i]) \subseteq CharsOf(log_file[g])
              /\ CharsOf(log_processed[g][i]) \cap log_snapshot[g] = {}

\* C23: when on_created handles the rotation of one game's log, the lines
\* that were appended to another game's log and not yet read are still the
\* lines the next read of that game returns.
C23_RotationLeavesOtherGames ==
    [][(log_pending' < log_pending /\ \E r \in LogGames : fh_stale[r]) =>
          \A g \in LogGames :
              (fh_open[g] /\ ~fh_stale[g] /\ ~log_rotated[g])
                  => ParsedLines(NewLines(g))' = ParsedLines(NewLines(g))]_vars

(***************************************************************************)
(*                            LOG EVENT RELAY                              *)
(***************************************************************************)
RelayGames == {"mc", "pal", "ark"}

\* Lines 1283-1302: per game, the patterns in list order; of each pattern the
\* kind of line it is written for and the named groups of its match.
regex_patterns(game) ==
    IF game = "mc" THEN
        << [kind |-> "chat", fields |-> {"username", "message"}],
           [kind |-> "join", fields |-> {"username"}],
           [kind |-> "leave", fields |-> {"username"}],
           [kind |-> "death", fields |-> {"message"}] >>
    ELSE IF game = "pal" THEN
        << [kind |-> "chat", fields |-> {"username", "message"}],
           [kind |-> "join", fields |-> {"username"}] >>
    ELSE
        << [kind |-> "chat", fields |-> {"username", "message"}],
           [kind |-> "join", fields |-> {"username"}],
           [kind |-> "leave", fields |-> {"username"}],
           [kind |-> "kill", fields |-> {"username", "killer"}],
           [kind |-> "kill", fields |-> {"username"}],
           [kind |-> "tame", fields |-> {"tribe", "username", "creature", "level"}] >>

\* Line 1278: economy.chat_cooldown_seconds, scaled.
cooldown_seconds == 2

\* A log line, by what the code can tell of it: whether it is empty, which of
\* its game's patterns pattern.search(line) finds in it, the player it names
\* (told apart for the lines the chat pattern matches, whose player the
\* cooldown is kept for) and whether its text holds one of the words of
\* line 1420 (told apart for the lines the death pattern matches).
LogLines(game) ==
    {[empty |-> TRUE, matches |-> {}, username |-> "p1", keyword |-> FALSE]}
    \cup
    UNION {
        {[empty |-> FALSE, matches |-> m, username |-> u, keyword |-> k] :
            u \in (IF 1 \in m THEN Players ELSE {"p1"}),
            k \in (IF game = "mc" /\ 4 \in m THEN BOOLEAN ELSE {FALSE})} :
        m \in {x \in SUBSET (1..Len(regex_patterns(game))) :
                  Cardinality(x) <= MaxMatches}}

\* Line 1372: data = match.groupdict(), with the game it is handled for.
MatchData(game, line, i) ==
    [game |-> game, pattern |-> i, kind |-> regex_patterns(game)[i].kind,
     fields |-> regex_patterns(game)[i].fields,
     username |-> line.username, keyword |-> line.keyword]

\* The mutant of FirstMatch: the loop goes on after a match, the last
\* matching pattern makes the event.
RECURSIVE LastMatch(_, _, _)
LastMatch(game, line, i) ==
    IF i > Len(regex_patterns(game)) THEN <<>>
    ELSE IF LastMatch(game, line, i + 1) # <<>>
         THEN LastMatch(game, line, i + 1)
         ELSE IF i \in line.matches THEN <<MatchData(game, line, i)>> ELSE <<>>

\* Lines 1369-1375: the loop over the patterns from the i-th on; the
\* handle_log_event calls it schedules.
RECURSIVE FirstMatch(_, _, _)
FirstMatch(game, line, i) ==
    IF i > Len(regex_patterns(game)) THEN <<>>
    ELSE IF i \in line.matches THEN <<MatchData(game, line, i)>>
         ELSE FirstMatch(game, line, i + 1)

\* Lines 1364-1375
parse_log_line(game, line) ==
    IF line.empty THEN <<>> ELSE FirstMatch(game, line, 1)

\* Lines 1391-1396: the condition under which the cooldown is reset and
\* points are to be added.
AwardDue(data) ==
    /\ {"username", "message"} \subseteq data.fields
    /\ economy_enabled
    /\ points_per_chat > 0
    /\ rl_now - chat_cooldowns[data.username] > cooldown_seconds

\* Lines 1401-1421: the message the if/elif chain builds. The branches of
\* lines 1405, 1407 and 1418 read the name "line", which is neither a local
\* of handle_log_event nor a global of the module: evaluating "'joined' in
\* line" raises NameError whenever the data has a username and no message.
RelayMessage(data) ==
    IF {"username", "message"} \subseteq data.fields THEN "chat"
    ELSE IF "username" \in data.fields THEN "NameError"
    ELSE IF {"tribe", "creature"} \subseteq data.fields THEN "tame"
    ELSE IF "message" \in data.fields /\ data.keyword THEN "death"
    ELSE "none"

\* Lines 1377-1429: what one handle_log_event call comes to. Line 1399 reads
\* db.add_points_by_ign, which database.py does not define: the attribute
\* lookup raises AttributeError after the cooldown was reset.
HandleOutcome(data, fetch, send) ==
    IF ~relay_channels[data.game] THEN "no_channel"
    ELSE IF fetch = "denied" THEN "no_access"
    ELSE IF AwardDue(data) THEN "AttributeError"
    ELSE IF RelayMessage(data) = "NameError" THEN "NameError"
    ELSE IF RelayMessage(data) = "none" THEN "nothing"
    ELSE IF send = "ok" THEN "sent"
    ELSE "send_failed"

RelayVarsInit ==
    /\ economy_enabled \in BOOLEAN
    /\ points_per_chat \in {0, 1}
    /\ relay_channels \in [RelayGames -> BOOLEAN]
    /\ chat_cooldowns = [p \in Players |-> 0]
    /\ db_points = [p \in Players |-> 0]
    /\ rl_now = cooldown_seconds + 1
    /\ rl_line = <<>>
    /\ rl_scheduled = <<>>
    /\ rl_queue = <<>>
    /\ rl_last = <<>>

\* The relay at rest: no relay channel, the economy off.
RelayIdle ==
    /\ economy_enabled = FALSE
    /\ points_per_chat = 0
    /\ relay_channels = [g \in RelayGames |-> FALSE]
    /\ chat_cooldowns = [p \in Players |-> 0]
    /\ db_points = [p \in Players |-> 0]
    /\ rl_now = cooldown_seconds + 1
    /\ rl_line = <<>>
    /\ rl_scheduled = <<>>
    /\ rl_queue = <<>>
    /\ rl_last = <<>>

\* parse_log_line(game, line), called by process_new_lines for a line read.
ParseLogLine ==
    /\ \E game \in RelayGames : \E line \in LogLines(game) :
        /\ Len(rl_queue) + Len(parse_log_line(game, line)) <= MaxQueue
        /\ rl_line' = <<[game |-> game, line |-> line]>>
        /\ rl_scheduled' = parse_log_line(game, line)
        /\ rl_queue' = rl_queue \o parse_log_line(game, line)
    /\ rl_last' = <<>>
    /\ UNCHANGED <<economy_enabled, points_per_chat, relay_channels,
                   chat_cooldowns, db_points, rl_now, nonRelayVars>>

\* One scheduled handle_log_event(game, data) call, run by the event loop.
HandleLogEvent ==
    /\ rl_queue # <<>>
    /\ \E fetch \in {"ok", "denied"}, send \in {"ok", "failed"} :
        LET data == Head(rl_queue)
            outcome == HandleOutcome(data, fetch, send)
        IN
        /\ chat_cooldowns' =
               IF outcome = "AttributeError"
               THEN [chat_cooldowns EXCEPT ![data.username] = rl_now]
               ELSE chat_cooldowns
        /\ rl_last' = <<[data |-> data, outcome |-> outcome]>>
    /\ rl_queue' = Tail(rl_queue)
    /\ rl_line' = <<>>
    /\ rl_scheduled' = <<>>
    /\ UNCHANGED <<economy_enabled, points_per_chat, relay_channels, db_points,
                   rl_now, nonRelayVars>>

\* Time passes.
RelayClock ==
    /\ rl_now < cooldown_seconds + 1 + MaxChatTime
    /\ rl_now' = rl_now + 1
    /\ rl_line' = <<>>
    /\ rl_scheduled' = <<>>
    /\ rl_last' = <<>>
    /\ UNCHANGED <<economy_enabled, points_per_chat, relay_channels,
                   chat_cooldowns, db_points, rl_queue, nonRelayVars>>

\* C24: parse_log_line schedules at most one event for a line; for a line
\* that is not empty and matches some pattern it is the event of the first
\* matching pattern in list order, with that pattern's groups; for an empty
\* line or a line no pattern matches it schedules nothing.
C24_FirstMatchWins ==
    rl_line # <<>> =>
        LET game == rl_line[1].game
            line == rl_line[1].line
            first == CHOOSE i \in line.matches : \A j \in line.matches : i <= j
        IN
        /\ Len(rl_scheduled) <= 1
        /\ (line.empty \/ line.matches = {}) => rl_scheduled = <<>>
        /\ (~line.empty /\ line.matches # {}) =>
              /\ Len(rl_scheduled) = 1
              /\ rl_scheduled[1].game = game
              /\ rl_scheduled[1].pattern = first
              /\ rl_scheduled[1].fields = regex_patterns(game)[first].fields

\* A line that two patterns match has scheduled the event of the first one.
C24_Witness ==
    /\ rl_line # <<>>
    /\ rl_line[1].line.matches = {2, 4}
    /\ Len(rl_scheduled) = 1
    /\ rl_scheduled[1].pattern = 2

\* C25: a scheduled event whose match has a username and no message (join,
\* leave, kill, tame) is sent to the game's relay channel whenever the
\* channel is configured and accessible and the send succeeds.
C25_UsernameEventsAreEmitted ==
    rl_last # <<>> =>
        LET r == rl_last[1] IN
        ("username" \in r.data.fields /\ "message" \notin r.data.fields
            /\ r.outcome \notin {"no_channel", "no_access", "send_failed"})
        => r.outcome = "sent"

C39_AwardFailureKeepsRelay ==
    rl_last # <<>> =>
        LET r == rl_last[1] IN
        /\ ({"username", "message"} \subseteq r.data.fields
               /\ r.outcome \notin {"no_channel", "no_access"})
           => r.outcome \in {"sent", "send_failed"}
        /\ r.outcome = "AttributeError"
           => chat_cooldowns[r.data.username] = rl_now

(***************************************************************************)
(*            PLAYER-NAME EXTRACTORS (monitor bot, lines 191-213)          *)
(***************************************************************************)
\* The characters of a response: two letters, blank, comma, colon, newline.
ExtractChars == {"A", "B", " ", ",", ":", "\n"}

\* The characters str.strip() removes.
Whitespace == {" ", "\n"}

Responses == UNION {[1..n -> ExtractChars] : n \in 0..MaxResponseLen}

\* s.split(sep): the pieces between the separators, cur being the piece read
\* so far.
RECURSIVE split(_, _, _)
split(s, sep, cur) ==
    IF s = <<>> THEN <<cur>>
    ELSE IF Head(s) = sep THEN <<cur>> \o split(Tail(s), sep, <<>>)
    ELSE split(Tail(s), sep, Append(cur, Head(s)))

\* s.split(sep, 1)[1] for an s that holds sep: what follows the first sep.
RECURSIVE AfterFirst(_, _)
AfterFirst(s, sep) ==
    IF Head(s) = sep THEN Tail(s) ELSE AfterFirst(Tail(s), sep)

RECURSIVE lstrip(_)
lstrip(s) ==
    IF s # <<>> /\ Head(s) \in Whitespace THEN lstrip(Tail(s)) ELSE s

RECURSIVE rstrip(_)
rstrip(s) ==
    IF s # <<>> /\ s[Len(s)] \in Whitespace
    THEN rstrip(SubSeq(s, 1, Len(s) - 1)) ELSE s

\* s.strip()
str_strip(s) == rstrip(lstrip(s))

\* The mutant of SkipHeader: the header line is read as a player line.
KeepHeader(lines) == lines

\* Line 195: response.split('\n')[1:]
SkipHeader(lines) == Tail(lines)

\* Lines 191-202
pal_player_extractor(response) ==
    LET lines == SkipHeader(split(response, "\n", <<>>))
        name(line) == str_strip(split(str_strip(line), ",", <<>>)[1])
    IN {name(lines[i]) : i \in {j \in 1..Len(lines) : name(lines[j]) # <<>>}}

\* Lines 205-213
mc_player_extractor(response) ==
    IF \E i \in 1..Len(response) : response[i] = ":"
    THEN LET player_list_str == str_strip(AfterFirst(response, ":"))
             names == split(player_list_str, ",", <<>>)
         IN {str_strip(names[i]) :
                i \in {j \in 1..Len(names) : str_strip(names[j]) # <<>>}}
    ELSE {}

ExtractVarsInit ==
    /\ ex_response \in Responses
    /\ ex_kind = "none"
    /\ ex_players = {}

\* No response has been received.
ExtractIdle ==
    /\ ex_response = <<>>
    /\ ex_kind = "none"
    /\ ex_players = {}

\* get_players of mc_monitor (line 188): the extractor applied to the response.
GetPlayersMc ==
    /\ ex_kind = "none"
    /\ ex_kind' = "mc"
    /\ ex_players' = mc_player_extractor(ex_response)
    /\ UNCHANGED <<ex_response, nonExtractVars>>

\* get_players of pal_monitor (line 188).
GetPlayersPal ==
    /\ ex_kind = "none"
    /\ ex_kind' = "pal"
    /\ ex_players' = pal_player_extractor(ex_response)
    /\ UNCHANGED <<ex_response, nonExtractVars>>

\* The part i..j of s without the whitespace at its ends (empty if it is
\* all whitespace), given by the positions of its outermost other characters.
Trimmed(s, i, j) ==
    LET solid == {k \in i..j : s[k] \notin Whitespace} IN
    IF solid = {} THEN <<>>
    ELSE SubSeq(s, CHOOSE a \in solid : \A k \in solid : a <= k,
                   CHOOSE b \in solid : \A k \in solid : b >= k)

\* The positions of sep in s.
Positions(s, sep) == {k \in 1..Len(s) : s[k] = sep}

\* The comma-separated names after the first ":" of the response: the
\* trimmed, non-empty parts between that ":", the commas after it and the end.
NamesAfterColon(response) ==
    IF Positions(response, ":") = {} THEN {}
    ELSE LET colon == CHOOSE c \in Positions(response, ":") :
                          \A k \in Positions(response, ":") : c <= k
             cuts == {colon, Len(response) + 1}
                         \cup {k \in Positions(response, ",") : k > colon}
         IN UNION {{Trimmed(response, a + 1, b - 1) :
                       b \in {x \in cuts :
                                 /\ x > a
                                 /\ \A y \in cuts : ~(a < y /\ y < x)}} :
                   a \in cuts} \ {<<>>}

\* The first comma-separated fields of the lines after the header line: of
\* each part between two newlines (or the last newline and the end), what
\* stands ahead of its first comma, trimmed, if that is not empty.
FirstFieldsAfterHeader(response) ==
    LET ends == Positions(response, "\n") \cup {Len(response) + 1}
        FieldEnd(a, b) ==
            LET commas == {k \in Positions(response, ",") : a < k /\ k < b}
            IN IF commas = {} THEN b
               ELSE CHOOSE c \in commas : \A k \in commas : c <= k
    IN UNION {{Trimmed(response, a + 1, FieldEnd(a, b) - 1) :
                  b \in {x \in ends :
                            /\ x > a
                            /\ \A y \in ends : ~(a < y /\ y < x)}} :
              a \in Positions(response, "\n")} \ {<<>>}

\* C29: mc_player_extractor returns the non-empty trimmed comma-separated
\* names after the first ":" of the response (none without a ":"), and
\* pal_player_extractor the non-empty first comma-separated fields of the
\* lines after the header line.
C29_ExtractorsReturnTheNames ==
    /\ ex_kind = "mc" => ex_players = NamesAfterColon(ex_response)
    /\ ex_kind = "pal" => ex_players = FirstFieldsAfterHeader(ex_response)

\* The Minecraft extractor found both names of a listing ": A, B".
C29_Witness ==
    /\ ex_kind = "mc"
    /\ ex_response = <<":", "A", ",", " ", "B">>
    /\ ex_players = {<<"A">>, <<"B">>}

(***************************************************************************)
(*          START AND STOP OF THE BOT (GameBot, the cogs' tasks)           *)
(***************************************************************************)
\* Lines 1310-1316: the games a log path can be configured for.
LifeGames == {"mc", "pal", "ark"}

\* Lines 1086-1098: the loops TasksCog.__init__ starts when enabled.
CogTasks == {"update_server_status", "crash_detector_task", "smart_restart_task"}

LifeVarsInit ==
    /\ lf_pc = "new"
    /\ lf_paths \in SUBSET LifeGames
    /\ lf_exists \in SUBSET lf_paths
    /\ lf_enabled \in SUBSET CogTasks
    /\ lf_tasks = {}
    /\ lf_observer = "new"
    /\ lf_handles = {}

\* The bot has not been constructed.
LifeIdle ==
    /\ lf_pc = "new"
    /\ lf_paths = {}
    /\ lf_exists = {}
    /\ lf_enabled = {}
    /\ lf_tasks = {}
    /\ lf_observer = "new"
    /\ lf_handles = {}

\* setup_hook (108-140): TasksCog.__init__ starts the enabled loops
\* (1086-1098), LogWatcherCog.__init__ creates the observer and starts
\* log_reader_task (1433-1444).
SetupHook ==
    /\ lf_pc = "new"
    /\ lf_pc' = "setup"
    /\ lf_tasks' = lf_enabled \cup {"log_reader_task"}
    /\ UNCHANGED <<lf_paths, lf_exists, lf_enabled, lf_observer, lf_handles,
                   nonLifeVars>>

\* on_ready (142-146) calls start_watching (1446-1465): nothing without a
\* monitoring path; else the existing log files are opened and the observer
\* thread is started, unless observer.start() raises, which is logged.
BotOnReady ==
    /\ lf_pc = "setup"
    /\ lf_pc' = "ready"
    /\ IF lf_paths = {}
       THEN UNCHANGED <<lf_observer, lf_handles>>
       ELSE /\ lf_handles' = lf_exists
            /\ lf_observer' \in {"started", "new"}
    /\ UNCHANGED <<lf_paths, lf_exists, lf_enabled, lf_tasks, nonLifeVars>>

\* stop_watching (1467-1474). observer.join() on a thread that was never
\* started raises RuntimeError (threading.Thread.join), and the two
\* statements after it are not run.
StopWatchingRaises == lf_observer = "new"

\* TasksCog.cog_unload (1100-1104)
TasksCogUnload(tasks) == tasks \ CogTasks

\* GameBot.close (204-208): stop_watching when the cog exists, then
\* commands.Bot.close, which removes the cogs (their cog_unload runs) and
\* closes the connection.
GameBotClose ==
    /\ lf_pc \in {"new", "setup", "ready"}
    /\ IF lf_pc # "new" /\ StopWatchingRaises
       THEN /\ lf_pc' = "close_raised"
            /\ UNCHANGED <<lf_tasks, lf_observer, lf_handles>>
       ELSE /\ lf_pc' = "closed"
            /\ lf_observer' = IF lf_pc = "new" THEN lf_observer ELSE "stopped"
            /\ lf_handles' = {}
            /\ lf_tasks' = TasksCogUnload(lf_tasks \ {"log_reader_task"})
    /\ UNCHANGED <<lf_paths, lf_exists, lf_enabled, nonLifeVars>>

\* TasksCog is unloaded while the bot runs.
UnloadTasksCog ==
    /\ lf_pc \in {"setup", "ready"}
    /\ lf_tasks \cap CogTasks # {}
    /\ lf_tasks' = TasksCogUnload(lf_tasks)
    /\ UNCHANGED <<lf_pc, lf_paths, lf_exists, lf_enabled, lf_observer,
                   lf_handles, nonLifeVars>>

\* C28: once close has been called, in every case, no periodic task is
\* left running and no log file handle is left open.
C28_StopReleasesEverything ==
    lf_pc \in {"closed", "close_raised"} =>
        /\ lf_tasks = {}
        /\ lf_handles = {}

(***************************************************************************)
(* The status command (lines 394-413, 569-600): it calls connect() itself  *)
(* and, when that returned True, get_players(), which calls send_command.  *)
(* It runs next to the callers of send_command on the same manager.        *)
(***************************************************************************)
StatusVarsInit ==
    /\ st_pc = "idle"
    /\ st_client = NoClient

\* No status command runs.
StatusIdle == StatusVarsInit

\* The command starts while a connection is cached: connect returns True at
\* once (149-150), and so does the connect of send_command; the send starts.
StatusCached ==
    /\ st_pc = "idle"
    /\ ConnectionCached
    /\ st_pc' = "sending"
    /\ st_client' = rc_client
    /\ UNCHANGED <<rconVars, nonRconStatusVars>>

\* The command starts with no cached connection: connect creates an
\* RconAsync, stores it in self.client and awaits its connect() (152-154).
StatusConnect ==
    /\ st_pc = "idle"
    /\ ~ConnectionCached
    /\ rc_created < MaxClients
    /\ rc_created' = rc_created + 1
    /\ rc_client' = rc_created + 1
    /\ st_pc' = "connecting"
    /\ st_client' = rc_created + 1
    /\ UNCHANGED <<rc_connected, rc_last_error, conn_open, call_pc, call_client,
                   call_result, nonRconStatusVars>>

\* The connect() awaited by the command's own connect call succeeded:
\* self.connected = True (155), connect returns True, and the command calls
\* get_players, whose send_command calls connect again without an await in
\* between. If self.client still holds an object the connection counts as
\* cached and the send starts on that object. If another call has set
\* self.client to None meanwhile, the test of line 149 fails, a new RconAsync
\* is stored in self.client and its connect() is awaited, self.connected
\* being True all along.
StatusConnectSucceeds ==
    /\ st_pc = "connecting"
    /\ conn_open' = conn_open \cup {st_client}
    /\ rc_connected' = TRUE
    /\ rc_last_error' = "none"
    /\ IF rc_client # NoClient
       THEN /\ st_pc' = "sending"
            /\ st_client' = rc_client
            /\ UNCHANGED <<rc_client, rc_created>>
       ELSE /\ rc_created < MaxClients
            /\ rc_created' = rc_created + 1
            /\ rc_client' = rc_created + 1
            /\ st_pc' = "reconnecting"
            /\ st_client' = rc_created + 1
    /\ UNCHANGED <<call_pc, call_client, call_result, nonRconStatusVars>>

\* The connect() awaited inside send_command succeeded (155-157); the send
\* starts on what self.client holds, and with self.client None the attribute
\* error is caught by the handler of lines 176-179.
StatusReconnectSucceeds ==
    /\ st_pc = "reconnecting"
    /\ conn_open' = conn_open \cup {st_client}
    /\ IF rc_client = NoClient
       THEN /\ rc_connected' = ConnectedAfterFailure
            /\ rc_last_error' = "send_failed"
            /\ st_pc' = "idle"
            /\ st_client' = NoClient
       ELSE /\ rc_connected' = TRUE
            /\ rc_last_error' = "none"
            /\ st_pc' = "sending"
            /\ st_client' = rc_client
    /\ UNCHANGED <<rc_client, rc_created, call_pc, call_client, call_result,
                   nonRconStatusVars>>

\* An awaited connect() of the command raised (158-162).
StatusConnectFails ==
    /\ st_pc \in {"connecting", "reconnecting"}
    /\ rc_connected' = ConnectedAfterFailure
    /\ rc_client' = NoClient
    /\ rc_last_error' = "connect_failed"
    /\ st_pc' = "idle"
    /\ st_client' = NoClient
    /\ UNCHANGED <<rc_created, conn_open, call_pc, call_client, call_result,
                   nonRconStatusVars>>

\* The awaited send() of the command returned a response (171).
StatusSendSucceeds ==
    /\ st_pc = "sending"
    /\ st_client \in conn_open
    /\ st_pc' = "idle"
    /\ st_client' = NoClient
    /\ UNCHANGED <<rconVars, nonRconStatusVars>>

\* The awaited send() of the command raised (172-179).
StatusSendFails ==
    /\ st_pc = "sending"
    /\ \E still_open \in BOOLEAN :
          conn_open' = IF still_open THEN conn_open ELSE conn_open \ {st_client}
    /\ rc_connected' = ConnectedAfterFailure
    /\ rc_last_error' = "send_failed"
    /\ st_pc' = "idle"
    /\ st_client' = NoClient
    /\ UNCHANGED <<rc_client, rc_created, call_pc, call_client, call_result,
                   nonRconStatusVars>>

\* C34: at every await point of the connect and send_command calls that run
\* on a manager, in any interleaving, connected = True implies that the
\* manager holds a client object.
C34_ConnectedHasClient == rc_connected => rc_client # NoClient

\* The manager is marked connected by a connect call that succeeded after
\* another call's failure had cleared the client, and holds the object of
\* the handshake started since.
C34_Witness ==
    /\ rc_connected
    /\ st_pc = "reconnecting"
    /\ rc_client = st_client
    /\ rc_client \notin conn_open

(***************************************************************************)
(*     _send_rcon_command OF THE PALWORLD BOT (palworld_bot.py, 49-80)     *)
(* The monitor task and the commands call it; each call has its own local  *)
(* rcon and is suspended at its awaits (connect, send, close).             *)
(***************************************************************************)
PalCallers == {"monitor", "command"}

\* The mutant of FinallyCloses: the connection is closed on the path of a
\* returned response only.
FinallyClosesOnReturn(client, pending) == client # NoClient /\ pending = "ok"

\* Lines 75-79: the finally block closes the client when one was created,
\* whatever the try block came to.
FinallyCloses(client, pending) == client # NoClient

PalRconVarsInit ==
    /\ RconAsync \in BOOLEAN
    /\ RCON_PASSWORD \in BOOLEAN
    /\ prc_pc = [c \in PalCallers |-> "idle"]
    /\ rcon = [c \in PalCallers |-> NoClient]
    /\ prc_pending = [c \in PalCallers |-> "none"]
    /\ prc_result = [c \in PalCallers |-> "none"]
    /\ prc_open = {}
    /\ prc_created = 0

\* No call of _send_rcon_command is made.
PalRconIdle ==
    /\ RconAsync = FALSE
    /\ RCON_PASSWORD = FALSE
    /\ prc_pc = [c \in PalCallers |-> "idle"]
    /\ rcon = [c \in PalCallers |-> NoClient]
    /\ prc_pending = [c \in PalCallers |-> "none"]
    /\ prc_result = [c \in PalCallers |-> "none"]
    /\ prc_open = {}
    /\ prc_created = 0

\* Lines 55-59: the call raises before any client is created.
SendRconRefused(c) ==
    /\ prc_pc[c] = "idle"
    /\ ~RconAsync \/ ~RCON_PASSWORD
    /\ prc_result' = [prc_result EXCEPT
                         ![c] = IF ~RconAsync THEN "ImportError" ELSE "ConnectionError"]
    /\ UNCHANGED <<RconAsync, RCON_PASSWORD, prc_pc, rcon, prc_pending, prc_open,
                   prc_created, nonPalRconVars>>

\* Lines 61-65: rcon = RconAsync(...), then await rcon.connect().
SendRconBegin(c) ==
    /\ prc_pc[c] = "idle"
    /\ RconAsync /\ RCON_PASSWORD
    /\ prc_created < MaxPalClients
    /\ prc_created' = prc_created + 1
    /\ rcon' = [rcon EXCEPT ![c] = prc_created + 1]
    /\ prc_pc' = [prc_pc EXCEPT ![c] = "connecting"]
    /\ prc_result' = [prc_result EXCEPT ![c] = "none"]
    /\ UNCHANGED <<RconAsync, RCON_PASSWORD, prc_pending, prc_open, nonPalRconVars>>

\* Line 65 returns: the connection is open; line 68 awaits rcon.send.
SendRconConnected(c) ==
    /\ prc_pc[c] = "connecting"
    /\ prc_open' = prc_open \cup {rcon[c]}
    /\ prc_pc' = [prc_pc EXCEPT ![c] = "sending"]
    /\ UNCHANGED <<RconAsync, RCON_PASSWORD, rcon, prc_pending, prc_result,
                   prc_created, nonPalRconVars>>

\* Lines 65, 72-75: connect raises; the except block raises ConnectionError
\* and the finally block runs.
SendRconConnectFails(c) ==
    /\ prc_pc[c] = "connecting"
    /\ prc_pending' = [prc_pending EXCEPT ![c] = "ConnectionError"]
    /\ prc_pc' = [prc_pc EXCEPT ![c] = "closing"]
    /\ UNCHANGED <<RconAsync, RCON_PASSWORD, rcon, prc_result, prc_open,
                   prc_created, nonPalRconVars>>

\* Lines 68-70 (the response is returned) or 72-75 (send raised): the finally
\* block runs with the return value or the ConnectionError pending.
SendRconSent(c) ==
    /\ prc_pc[c] = "sending"
    /\ \E outcome \in {"ok", "ConnectionError"} :
          prc_pending' = [prc_pending EXCEPT ![c] = outcome]
    /\ prc_pc' = [prc_pc EXCEPT ![c] = "closing"]
    /\ UNCHANGED <<RconAsync, RCON_PASSWORD, rcon, prc_result, prc_open,
                   prc_created, nonPalRconVars>>

\* Lines 76-80: await rcon.close(), then the call completes with the pending
\* return or exception.
SendRconFinally(c) ==
    /\ prc_pc[c] = "closing"
    /\ prc_open' = IF FinallyCloses(rcon[c], prc_pending[c])
                   THEN prc_open \ {rcon[c]}
                   ELSE prc_open
    /\ prc_result' = [prc_result EXCEPT ![c] = prc_pending[c]]
    /\ prc_pending' = [prc_pending EXCEPT ![c] = "none"]
    /\ rcon' = [rcon EXCEPT ![c] = NoClient]
    /\ prc_pc' = [prc_pc EXCEPT ![c] = "idle"]
    /\ UNCHANGED <<RconAsync, RCON_PASSWORD, prc_created, nonPalRconVars>>

DiscordIds == {"d1", "d2"}
Names == {"n1", "n2"}
NULL == "NULL"

\* users (discord_id TEXT PRIMARY KEY, in_game_name TEXT UNIQUE,
\*        points INTEGER DEFAULT 0), lines 21-27.
NoRow == [exists |-> FALSE, in_game_name |-> NULL, points |-> 0]
Row(n, pts) == [exists |-> TRUE, in_game_name |-> n, points |-> pts]

\* The mutant of NameTaken: the name is never found taken.
NameTakenNever(table, d, n) == FALSE

\* Lines 45-47: SELECT discord_id FROM users WHERE in_game_name = ? finds a
\* row of another Discord ID.
NameTaken(table, d, n) ==
    \E x \in DiscordIds \ {d} : table[x].exists /\ table[x].in_game_name = n

\* The mutant of CurrentPoints: the row is written with the column default.
CurrentPointsDefault(table, d) == 0

\* Lines 52-57: the points of the row of discord_id, 0 when there is none.
CurrentPoints(table, d) == IF table[d].exists THEN table[d].points ELSE 0

\* Lines 61-64, INSERT OR REPLACE: the rows that conflict with the new one on
\* the primary key or on the UNIQUE in-game name are deleted, then the row is
\* inserted.
InsertOrReplace(table, d, n, pts) ==
    [x \in DiscordIds |->
        IF x = d THEN Row(n, pts)
        ELSE IF table[x].exists /\ n # NULL /\ table[x].in_game_name = n THEN NoRow
        ELSE table[x]]

\* Lines 67-68: DELETE FROM users WHERE in_game_name = ? AND discord_id != ?
DeleteOthers(table, d, n) ==
    [x \in DiscordIds |->
        IF x # d /\ table[x].exists /\ table[x].in_game_name = n THEN NoRow
        ELSE table[x]]

\* Lines 38-78: the table after link_user(d, n).
link_user(table, d, n) ==
    IF NameTaken(table, d, n) THEN table
    ELSE DeleteOthers(InsertOrReplace(table, d, n, CurrentPoints(table, d)), d, n)

\* Lines 80-89: UPDATE users SET in_game_name = NULL WHERE discord_id = ?
unlink_user(table, d) ==
    [table EXCEPT ![d] = IF @.exists THEN [@ EXCEPT !.in_game_name = NULL] ELSE @]

\* Lines 127-130: INSERT OR IGNORE of a row with 0 points, then
\* UPDATE users SET points = points + ?
update_points(table, d, amount) ==
    LET ensured == IF table[d].exists THEN table
                   ELSE [table EXCEPT ![d] = Row(NULL, 0)]
    IN [ensured EXCEPT ![d].points = @ + amount]

NoCall == [op |-> "none", d |-> "none", n |-> NULL, ok |-> TRUE, amount |-> 0, before |-> 0]
NoPurchase == [d |-> "none", cost |-> 0]
BuySlots == {1, 2}

DbVarsInit ==
    /\ users = [d \in DiscordIds |-> NoRow]
    /\ db_last = NoCall
    /\ buying = [b \in BuySlots |-> NoPurchase]

\* No database call is made.
DbIdle == DbVarsInit

\* /link (line 925): one link_user call.
LinkUser ==
    \E d \in DiscordIds, n \in Names :
        /\ users' = link_user(users, d, n)
        /\ db_last' = [op |-> "link", d |-> d, n |-> n,
                       ok |-> ~NameTaken(users, d, n), amount |-> 0,
                       before |-> CurrentPoints(users, d)]
        /\ UNCHANGED <<buying, nonDbVars>>

\* /unlink (line 947): one unlink_user call.
UnlinkUser ==
    \E d \in DiscordIds :
        /\ users' = unlink_user(users, d)
        /\ db_last' = [op |-> "unlink", d |-> d, n |-> NULL, ok |-> TRUE,
                       amount |-> 0, before |-> CurrentPoints(users, d)]
        /\ UNCHANGED <<buying, nonDbVars>>

\* One update_points call that adds or removes a point.
UpdatePoints ==
    \E d \in DiscordIds, amount \in {-1, 1} :
        /\ CurrentPoints(users, d) + amount \in 0..MaxPoints
        /\ users' = update_points(users, d, amount)
        /\ db_last' = [op |-> "update", d |-> d, n |-> NULL, ok |-> TRUE,
                       amount |-> amount, before |-> CurrentPoints(users, d)]
        /\ UNCHANGED <<buying, nonDbVars>>

\* Lines 999-1022: /buy reads the user's row; the user is not linked or has
\* fewer points than the item costs, and the purchase is refused.
BuyRefused(b) ==
    \E d \in DiscordIds, cost \in 1..MaxCost :
        /\ buying[b] = NoPurchase
        /\ \/ ~users[d].exists
           \/ users[d].in_game_name = NULL
           \/ users[d].points < cost
        /\ db_last' = [op |-> "refused", d |-> d, n |-> NULL, ok |-> FALSE,
                       amount |-> -cost, before |-> CurrentPoints(users, d)]
        /\ UNCHANGED <<users, buying, nonDbVars>>

\* Lines 999-1034: /buy reads the user's row and the checks pass; the
\* deduction of line 1037 is handed to a thread.
BuyCheck(b) ==
    \E d \in DiscordIds, cost \in 1..MaxCost :
        /\ buying[b] = NoPurchase
        /\ users[d].exists
        /\ users[d].in_game_name # NULL
        /\ users[d].points >= cost
        /\ buying' = [buying EXCEPT ![b] = [d |-> d, cost |-> cost]]
        /\ UNCHANGED <<users, db_last, nonDbVars>>

\* Line 1037: update_points(discord_id, -item_cost) runs.
BuyDeduct(b) ==
    /\ buying[b] # NoPurchase
    /\ CurrentPoints(users, buying[b].d) - buying[b].cost >= -MaxPoints
    /\ users' = update_points(users, buying[b].d, -buying[b].cost)
    /\ db_last' = [op |-> "buy", d |-> buying[b].d, n |-> NULL, ok |-> TRUE,
                   amount |-> -buying[b].cost,
                   before |-> CurrentPoints(users, buying[b].d)]
    /\ buying' = [buying EXCEPT ![b] = NoPurchase]
    /\ UNCHANGED nonDbVars

\* The names linked in a table are linked to one Discord ID each.
NamesUnique(table) ==
    \A x, y \in DiscordIds :
        (x # y /\ table[x].exists /\ table[y].exists
            /\ table[x].in_game_name # NULL)
        => table[x].in_game_name # table[y].in_game_name

\* The bot starts on the database file of earlier runs (CREATE TABLE IF NOT
\* EXISTS, line 22): any table the schema allows.
EconomyVarsInit ==
    /\ users \in {t \in [DiscordIds ->
                            {NoRow} \cup {Row(n, pts) : n \in Names \cup {NULL},
                                                        pts \in 0..MaxPoints}] :
                     NamesUnique(t)}
    /\ db_last = NoCall
    /\ buying = [b \in BuySlots |-> NoPurchase]

\* C31: after every call no in-game name is linked to two Discord IDs, and a
\* link_user(d, n) made while n is linked to another Discord ID returns False
\* and leaves the users table as it was.
C31_NamesAreUniqueAndTakenNamesRefused ==
    [][/\ NamesUnique(users')
       /\ (db_last'.op = "link"
              /\ \E x \in DiscordIds \ {db_last'.d} :
                    users[x].exists /\ users[x].in_game_name = db_last'.n)
          => (~db_last'.ok /\ users' = users)]_vars

\* link_user was refused a name that another Discord ID holds, and that
\* Discord ID still holds it.
C31_Witness ==
    /\ db_last.op = "link"
    /\ ~db_last.ok
    /\ \E x \in DiscordIds \ {db_last.d} :
          users[x].exists /\ users[x].in_game_name = db_last.n /\ users[x].points > 0
    /\ users[db_last.d].exists

\* C32: unlink_user and link_user leave the points of every row as they were
\* and delete no row; unlink_user changes nothing but the in-game name of the
\* row of its Discord ID, a successful link_user on an existing Discord ID sets
\* its in-game name.
C32_LinkingKeepsPoints ==
    [][db_last'.op \in {"link", "unlink"} =>
          /\ \A x \in DiscordIds :
                users[x].exists =>
                    users'[x].exists /\ users'[x].points = users[x].points
          /\ \A x \in DiscordIds \ {db_last'.d} : users'[x] = users[x]
          /\ (db_last'.op = "unlink" /\ users[db_last'.d].exists)
                => users'[db_last'.d] = Row(NULL, users[db_last'.d].points)
          /\ (db_last'.op = "link" /\ db_last'.ok)
                => users'[db_last'.d] = Row(db_last'.n, CurrentPoints(users, db_last'.d))]_vars

\* A user with points was unlinked and linked again under another name: the
\* row holds the new name and the points.
C32_Witness ==
    /\ db_last.op = "link"
    /\ db_last.ok
    /\ db_last.before = MaxPoints
    /\ users[db_last.d] = Row(db_last.n, MaxPoints)
    /\ \E x \in DiscordIds \ {db_last.d} :
          users[x].exists /\ users[x].in_game_name = NULL /\ users[x].points > 0

\* C37: a purchase deducts points only from a balance that covers the cost,
\* so that the balance after a purchase is not negative.
C37_DeductionIsCovered ==
    db_last.op = "buy" =>
        /\ db_last.before >= -db_last.amount
        /\ users[db_last.d].points >= 0

(***************************************************************************)
(*                             SPECIFICATIONS                              *)
(***************************************************************************)
CrashInit ==
    CrashVarsInit /\ MonVarsInit /\ PalIdle /\ RconVarsInit /\ SchedIdle /\ LogVarsInit /\ RelayIdle /\ ExtractIdle /\ LifeIdle /\ StatusIdle /\ PalRconIdle /\ DbIdle

CrashNext ==
    \/ CrashDetectorNoChannel
    \/ CrashDetectorTick

SpecCrash == CrashInit /\ [][CrashNext]_vars

\* The crash detector under any configured threshold.
CrashConfigInit ==
    CrashConfigVarsInit /\ MonVarsInit /\ PalIdle /\ RconVarsInit /\ SchedIdle /\ LogVarsInit /\ RelayIdle /\ ExtractIdle /\ LifeIdle /\ StatusIdle /\ PalRconIdle /\ DbIdle

SpecCrashConfig == CrashConfigInit /\ [][CrashNext]_vars

\* The presence monitors: the multi-game monitor bot or the Palworld bot runs.
Init ==
    /\ MonVarsInit
    /\ PalIdle \/ PalVarsInit
    /\ CrashIdle /\ RconVarsInit /\ SchedIdle /\ LogVarsInit /\ DbIdle /\ PalRconIdle /\ StatusIdle /\ LifeIdle /\ ExtractIdle /\ RelayIdle

Next ==
    \/ \E g \in MonGames : CheckServerStep(g)
    \/ \E g \in MonGames : CheckServerAborts(g)
    \/ ClockTick
    \/ ProcessCrash
    \/ CrashDuringSave
    \/ OnReady
    \/ MonitorRconTask

Spec == Init /\ [][Next]_vars

LedgerInit ==
    MonVarsInit /\ PalIdle /\ CrashIdle /\ RconVarsInit /\ SchedIdle /\ LogVarsInit /\ RelayIdle /\ ExtractIdle /\ LifeIdle /\ StatusIdle /\ PalRconIdle /\ DbIdle

LedgerNext ==
    \/ \E k \in LedgerKeys : LedgerJoin(k[1], k[2])
    \/ \E k \in LedgerKeys : LedgerLeave(k[1], k[2])
    \/ LedgerClock

SpecLedger == LedgerInit /\ [][LedgerNext]_vars

RconInit ==
    RconVarsInit /\ CrashIdle /\ MonVarsInit /\ PalIdle /\ SchedIdle /\ LogVarsInit /\ RelayIdle /\ ExtractIdle /\ LifeIdle /\ StatusIdle /\ PalRconIdle /\ DbIdle

RconNext ==
    \E c \in Callers :
        \/ SendCommandCached(c)
        \/ SendCommandConnect(c)
        \/ ConnectSucceeds(c)
        \/ ConnectFails(c)
        \/ SendSucceeds(c)
        \/ SendFails(c)

SpecRcon == RconInit /\ [][RconNext]_vars

SchedInit ==
    SchedVarsInit /\ CrashIdle /\ MonVarsInit /\ PalIdle /\ RconVarsInit /\ LogVarsInit /\ RelayIdle /\ ExtractIdle /\ LifeIdle /\ StatusIdle /\ PalRconIdle /\ DbIdle

SchedNext == SmartRestartTask

SpecSched == SchedInit /\ [][SchedNext]_vars

LogInit ==
    LogVarsInit /\ CrashIdle /\ MonVarsInit /\ PalIdle /\ RconVarsInit /\ SchedIdle /\ RelayIdle /\ ExtractIdle /\ LifeIdle /\ StatusIdle /\ PalRconIdle /\ DbIdle

LogNext ==
    \/ StartWatching
    \/ OtherFileCreated
    \/ OnCreated
    \/ \E g \in LogGames :
          \/ AppendChar(g)
          \/ AppendNewline(g)
          \/ AppendLine(g)
          \/ Truncate(g)
          \/ Replace(g)
          \/ ProcessNewLines(g)

SpecLog == LogInit /\ [][LogNext]_vars

RelayInit ==
    RelayVarsInit /\ CrashIdle /\ MonVarsInit /\ PalIdle /\ RconVarsInit /\ SchedIdle /\ LogVarsInit /\ ExtractIdle /\ LifeIdle /\ StatusIdle /\ PalRconIdle /\ DbIdle

\* parse_log_line alone, applied to the lines of every game.
ParseNext == ParseLogLine

SpecParse == RelayInit /\ [][ParseNext]_vars

RelayNext ==
    \/ ParseLogLine
    \/ HandleLogEvent
    \/ RelayClock

SpecRelay == RelayInit /\ [][RelayNext]_vars

ExtractInit ==
    ExtractVarsInit /\ CrashIdle /\ MonVarsInit /\ PalIdle /\ RconVarsInit /\ SchedIdle /\ LogVarsInit /\ RelayIdle /\ LifeIdle /\ StatusIdle /\ PalRconIdle /\ DbIdle

ExtractNext ==
    \/ GetPlayersMc
    \/ GetPlayersPal

SpecExtract == ExtractInit /\ [][ExtractNext]_vars

LifeInit ==
    LifeVarsInit /\ CrashIdle /\ MonVarsInit /\ PalIdle /\ RconVarsInit /\ SchedIdle /\ LogVarsInit /\ RelayIdle /\ ExtractIdle /\ StatusIdle /\ PalRconIdle /\ DbIdle

LifeNext ==
    \/ SetupHook
    \/ BotOnReady
    \/ GameBotClose
    \/ UnloadTasksCog

SpecLife == LifeInit /\ [][LifeNext]_vars

\* The callers of send_command and the status command on one manager.
RconStatusInit ==
    RconVarsInit /\ StatusVarsInit /\ CrashIdle /\ MonVarsInit /\ PalIdle /\ SchedIdle /\ LogVarsInit /\ RelayIdle /\ ExtractIdle /\ LifeIdle /\ PalRconIdle /\ DbIdle

RconStatusNext ==
    \/ RconNext
    \/ StatusCached
    \/ StatusConnect
    \/ StatusConnectSucceeds
    \/ StatusReconnectSucceeds
    \/ StatusConnectFails
    \/ StatusSendSucceeds
    \/ StatusSendFails

SpecRconStatus == RconStatusInit /\ [][RconStatusNext]_vars

\* The calls of _send_rcon_command of the Palworld bot.
PalRconInit ==
    PalRconVarsInit /\ CrashIdle /\ MonVarsInit /\ PalIdle /\ RconVarsInit /\ SchedIdle /\ LogVarsInit /\ RelayIdle /\ ExtractIdle /\ LifeIdle /\ StatusIdle /\ DbIdle

PalRconNext ==
    \E c \in PalCallers :
        \/ SendRconRefused(c)
        \/ SendRconBegin(c)
        \/ SendRconConnected(c)
        \/ SendRconConnectFails(c)
        \/ SendRconSent(c)
        \/ SendRconFinally(c)

SpecPalRcon == PalRconInit /\ [][PalRconNext]_vars

\* The database calls, one after another.
DbInit ==
    DbVarsInit /\ CrashIdle /\ MonVarsInit /\ PalIdle /\ RconVarsInit /\ SchedIdle /\ LogVarsInit /\ RelayIdle /\ ExtractIdle /\ LifeIdle /\ StatusIdle /\ PalRconIdle

DbNext ==
    \/ LinkUser
    \/ UnlinkUser
    \/ UpdatePoints

SpecDb == DbInit /\ [][DbNext]_vars

\* The economy commands of the bot on a database file that exists: /link,
\* /unlink and concurrent /buy invocations. update_points is called by /buy
\* only (line 1037).
EconomyInit ==
    EconomyVarsInit /\ CrashIdle /\ MonVarsInit /\ PalIdle /\ RconVarsInit /\ SchedIdle /\ LogVarsInit /\ RelayIdle /\ ExtractIdle /\ LifeIdle /\ StatusIdle /\ PalRconIdle

EconomyNext ==
    \/ LinkUser
    \/ UnlinkUser
    \/ \E b \in BuySlots :
          \/ BuyRefused(b)
          \/ BuyCheck(b)
          \/ BuyDeduct(b)

SpecEconomy == EconomyInit /\ [][EconomyNext]_vars

=============================================================================
